---------------------------- MODULE Spec2Model ----------------------------
(***************************************************************************)
(* A model of the rnes emulator core: the machine (Nes), the 6502 CPU and  *)
(* its bus, the PPU and its bus.  Each component is a record of its fields *)
(* and every source function is an operator from machine to machine, so    *)
(* that a handler is the composition of the calls it makes.                *)
(***************************************************************************)
EXTENDS Integers, Sequences, FiniteSets, TLC

VARIABLES
    cpu,        \* Cpu: a, x, y, s, p, pc, irq, halt
    bus,        \* CpuBus: cycles, stalls, wram, event (the channel it receives on)
    ppu,        \* Ppu: registers, write latch, mode, dot and line counters, nmi
    pbus,       \* PpuBus: vram, palette, oam, event (the channel it receives on)
    mmc,        \* the cartridge behind the mapper: PRG-ROM bytes, PRG-RAM
    joypad1,    \* Joypad of player 1: strobe, cur_key, state
    joypad2,    \* Joypad of player 2
    turn,       \* position inside Nes::tick: "cpu" (before cpu.tick) or "ppu"
    panicked,   \* a Rust panic has unwound the emulation thread
    obs         \* observations of the run (history), never read by the machine

vars == <<cpu, bus, ppu, pbus, mmc, joypad1, joypad2, turn, panicked, obs>>

---------------------------------------------------------------------------
(* Program constants *)

VISIBLE_WIDTH == 256
VISIBLE_HEIGHT == 240
WIDTH == 340
HEIGHT == 261
STACK_BASE == 256
DMA_STALL == 513
TICKS_PER_FRAME == 89342

(* Bounds of the model *)

MaxInstr == 3

---------------------------------------------------------------------------
(* Bytes, words and bit fields *)

Byte == 0..255

Bit(v, n) == (v \div (2 ^ n)) % 2

WithBit(v, n, b) == v - Bit(v, n) * (2 ^ n) + (IF b THEN 2 ^ n ELSE 0)

Lo(w) == w % 256

Hi(w) == (w \div 256) % 256

Word(lo, hi) == hi * 256 + lo

wrapping_add8(v, d) == (v + d) % 256

wrapping_sub8(v, d) == (v + 256 - d) % 256

wrapping_add16(v, d) == (v + d) % 65536

(* A memory array is kept as the map of the cells that differ from the    *)
(* value the array was created with.                                      *)
Load(mem, i, fill) == IF i \in DOMAIN mem THEN mem[i] ELSE fill

Store(mem, i, v) == [k \in (DOMAIN mem) \cup {i} |-> IF k = i THEN v ELSE mem[k]]

WRAM_FILL == 255
OAM_FILL == 0
VRAM_FILL == 255
PALETTE_FILL == 0

---------------------------------------------------------------------------
(* The machine value the operators work on: the components and the panic  *)
(* flag.  A panicked machine is left as the panic found it.                *)

Machine ==
    [cpu |-> cpu, bus |-> bus, ppu |-> ppu, pbus |-> pbus, mmc |-> mmc,
     joypad1 |-> joypad1, joypad2 |-> joypad2, panic |-> panicked]

Panic(M) == [M EXCEPT !.panic = TRUE]

---------------------------------------------------------------------------
(* Ppu: the register bit fields (ppu.rs, bitfield! blocks) *)

ie_nmi(c) == Bit(c, 7) = 1

addr_inc_32(c) == Bit(c, 2) = 1

large_sprite(c) == Bit(c, 5) = 1

y_flip(f) == Bit(f, 7) = 1

mask_oam(m) == Bit(m, 4) = 1

mask_bg(m) == Bit(m, 3) = 1

irq_vblank(st) == Bit(st, 7) = 1

oam_0_hit(st) == Bit(st, 6) = 1

oam_overflow(st) == Bit(st, 5) = 1

set_irq_vblank(st, b) == WithBit(st, 7, b)

set_oam_0_hit(st, b) == WithBit(st, 6, b)

set_oam_overflow(st, b) == WithBit(st, 5, b)

---------------------------------------------------------------------------
(* PpuBus *)

(* PpuBus::tick: deliver one queued DMA payload into OAM.  The index      *)
(* i + oam_addr is not reduced modulo 256: the first index past the array *)
(* panics, after the cells before it have been written.                   *)
PpuBus_tick(M) ==
    IF M.pbus.event = <<>> THEN M
    ELSE LET ev == Head(M.pbus.event)
             n == Len(ev.data)
             last == IF ev.oam_addr + n > 256 THEN 255 ELSE ev.oam_addr + n - 1
             written == ev.oam_addr .. last
             oam1 == [k \in (DOMAIN M.pbus.oam) \cup written |->
                         IF k \in written THEN ev.data[k - ev.oam_addr + 1]
                         ELSE M.pbus.oam[k]]
             M1 == [M EXCEPT !.pbus.event = Tail(M.pbus.event), !.pbus.oam = oam1]
         IN IF ev.oam_addr + n > 256 THEN Panic(M1) ELSE M1

(* PpuBus::request_dma: queue a request on the CpuBus channel. *)
(* PpuBus::request_dma sending the request twice. *)
request_dma_Twice(M, cpu_addr, oam_addr) ==
    [M EXCEPT !.bus.event = Append(Append(@, [addr |-> cpu_addr, oam_addr |-> oam_addr]),
                                   [addr |-> cpu_addr, oam_addr |-> oam_addr])]

request_dma(M, cpu_addr, oam_addr) ==
    [M EXCEPT !.bus.event = Append(@, [addr |-> cpu_addr, oam_addr |-> oam_addr])]

---------------------------------------------------------------------------
(* Ppu: the register port *)

(* Ppu::read_status leaving the VBlank flag as it is. *)
read_status_KeepsVblank(M) ==
    [m |-> [M EXCEPT !.ppu.buffer = <<>>,
                     !.ppu.status = set_oam_overflow(set_oam_0_hit(@, FALSE), FALSE)],
     v |-> M.ppu.status]

(* Ppu::read_status leaving the write latch as it is. *)
read_status_KeepsLatch(M) ==
    [m |-> [M EXCEPT !.ppu.status = set_oam_overflow(
                                      set_oam_0_hit(set_irq_vblank(@, FALSE), FALSE), FALSE)],
     v |-> M.ppu.status]

(* Ppu::read_status: returns the status byte as it was and clears the     *)
(* write latch and bits 7, 6, 5. *)
read_status(M) ==
    [m |-> [M EXCEPT !.ppu.buffer = <<>>,
                     !.ppu.status = set_oam_overflow(
                                      set_oam_0_hit(set_irq_vblank(@, FALSE), FALSE), FALSE)],
     v |-> M.ppu.status]

write_buffer(M, data) ==
    [M EXCEPT !.ppu.buffer = Append(IF Len(@) >= 2 THEN <<>> ELSE @, data)]

write_ctrl(M, data) ==
    [M EXCEPT !.ppu.nmi = IF ~ie_nmi(M.ppu.ctrl) /\ ie_nmi(data) /\ M.ppu.mode = "VBlank"
                          THEN TRUE ELSE @,
              !.ppu.ctrl = data]

write_mask(M, data) == [M EXCEPT !.ppu.mask = data]

write_status(M, data) == [M EXCEPT !.ppu.status = data]

write_oam_addr(M, data) == [M EXCEPT !.ppu.oam_addr = data]

write_oam_data(M, data) == [M EXCEPT !.pbus.oam = Store(@, M.ppu.oam_addr, data)]

(* Ppu::write_scroll taking the pair in the other order. *)
write_scroll_SecondFirst(M, data) ==
    LET M1 == write_buffer(M, data)
    IN IF Len(M1.ppu.buffer) = 2
       THEN [M1 EXCEPT !.ppu.scroll_x = M1.ppu.buffer[2], !.ppu.scroll_y = M1.ppu.buffer[1]]
       ELSE M1

(* Ppu::write_scroll: the byte joins the latch, and the second byte of a   *)
(* pair sets scroll_x to the first and scroll_y to the second.             *)
write_scroll(M, data) ==
    LET M1 == write_buffer(M, data)
    IN IF Len(M1.ppu.buffer) = 2
       THEN [M1 EXCEPT !.ppu.scroll_x = M1.ppu.buffer[1], !.ppu.scroll_y = M1.ppu.buffer[2]]
       ELSE M1

write_vram_addr(M, data) == write_buffer(M, data)

write_oam_dma(M, data) ==
    LET M1 == [M EXCEPT !.ppu.dma_addr = data * 256]
    IN request_dma(M1, M1.ppu.dma_addr, M1.ppu.oam_addr)

read_oam_dma(M) == M.ppu.oam_addr

---------------------------------------------------------------------------
(* Mmc0 (mmc.rs): PRG-RAM at $6000-$7FFF, PRG-ROM at $8000-$FFFF, a 16 KiB *)
(* image mirrored at $C000.  prg maps an offset into the image to its byte *)
(* (bytes not listed are PRG_FILL).                                        *)

PRG_FILL == 234

PRG_RAM_FILL == 0

Mmc0_read_cpu(M, addr) ==
    LET a1 == IF M.mmc.prg_size <= 16384 /\ addr >= 49152 THEN addr - 16384 ELSE addr
    IN CASE a1 \in 24576..32767 -> Load(M.mmc.prg_ram, a1 - 24576, PRG_RAM_FILL)
         [] a1 \in 32768..65535 -> Load(M.mmc.prg, a1 - 32768, PRG_FILL)
         [] OTHER -> 0

Mmc0_write_cpu(M, addr, data) ==
    IF addr \in 24576..32767
    THEN [M EXCEPT !.mmc.prg_ram = Store(@, addr - 24576, data)]
    ELSE M

---------------------------------------------------------------------------
(* Joypad (joypad.rs).  state is the HashMap of the keys that keydown or   *)
(* keyup have inserted; a key it does not hold reads as released.          *)

JoypadKeys == <<"A", "B", "Select", "Start", "Up", "Down", "Left", "Right">>

(* `key as u8` *)
KeyNumber(key) == (CHOOSE i \in 1..8 : JoypadKeys[i] = key) - 1

(* JoypadKey::next: from_u8((key as u8 + 1) % (Right as u8 + 1)) *)
JoypadKey_next(key) == JoypadKeys[((KeyNumber(key) + 1) % (KeyNumber("Right") + 1)) + 1]

Joypad_new == [strobe |-> FALSE, cur_key |-> "A", state |-> [k \in {} |-> FALSE]]

Pressed(J, key) == Load(J.state, key, FALSE)

(* Joypad::read moving to the next key whatever the strobe. *)
Joypad_read_AlwaysNext(J) ==
    [j |-> [J EXCEPT !.cur_key = JoypadKey_next(@)],
     v |-> IF Pressed(J, J.cur_key) THEN 1 ELSE 0]

(* Joypad::read: the state of the current key, and the next key unless the *)
(* strobe is set.                                                          *)
Joypad_read(J) ==
    [j |-> IF ~J.strobe THEN [J EXCEPT !.cur_key = JoypadKey_next(@)] ELSE J,
     v |-> IF Pressed(J, J.cur_key) THEN 1 ELSE 0]

(* Joypad::write: strobe = (data >> 7 == 1) *)
Joypad_write(J, data) ==
    IF data \div 128 = 1 THEN [J EXCEPT !.strobe = TRUE, !.cur_key = "A"]
    ELSE [J EXCEPT !.strobe = FALSE]

keydown(J, key) == [J EXCEPT !.state = Store(@, key, TRUE)]

keyup(J, key) == [J EXCEPT !.state = Store(@, key, FALSE)]

---------------------------------------------------------------------------
(* Mmc1 (mmc.rs): the serial load port at $8000-$FFFF.  Its registers are  *)
(* fields of the cartridge record: latch, counter, control, chr_bank_0,    *)
(* chr_bank_1, prg_bank.                                                   *)

reset_load(M) == [M EXCEPT !.mmc.latch = 0, !.mmc.counter = 0]

(* The arm of the match in Mmc1::copy_register that a value selects. *)
CopyArm(addr) ==
    CASE addr = 0 -> "control"
      [] addr = 8192 -> "chr_bank_0"
      [] addr = 16384 -> "chr_bank_1"
      [] addr = 24576 -> "prg_bank"
      [] OTHER -> "none"

copy_register(M, addr) ==
    CASE CopyArm(addr) = "control" -> [M EXCEPT !.mmc.control = M.mmc.latch]
      [] CopyArm(addr) = "chr_bank_0" -> [M EXCEPT !.mmc.chr_bank_0 = M.mmc.latch]
      [] CopyArm(addr) = "chr_bank_1" -> [M EXCEPT !.mmc.chr_bank_1 = M.mmc.latch]
      [] CopyArm(addr) = "prg_bank" -> [M EXCEPT !.mmc.prg_bank = M.mmc.latch]
      [] OTHER -> M

(* addr & 0b01100000 *)
LoadSelect(addr) == (addr % 128) - (addr % 32)

(* The shift of Mmc1::write_load: latch <<= 1 (a u8), the data bit or-ed   *)
(* in, the counter incremented.                                            *)
ShiftIn(M, data) ==
    [M EXCEPT !.mmc.latch = ((@ * 2) % 256) + Bit(data, 0), !.mmc.counter = @ + 1]

(* Mmc1::write_load entering the data bit at the top of a 5-bit shifter.   *)
write_load_LsbFirst(M, addr, data) ==
    LET S == [M EXCEPT !.mmc.latch = (@ \div 2) + 16 * Bit(data, 0), !.mmc.counter = @ + 1]
    IN IF Bit(data, 7) > 0 THEN reset_load(M)
       ELSE IF S.mmc.counter = 5 THEN reset_load(copy_register(S, LoadSelect(addr)))
       ELSE S

write_load(M, addr, data) ==
    IF Bit(data, 7) > 0 THEN reset_load(M)
    ELSE IF ShiftIn(M, data).mmc.counter = 5
         THEN reset_load(copy_register(ShiftIn(M, data), LoadSelect(addr)))
         ELSE ShiftIn(M, data)

Mmc1_write_cpu(M, addr, data) ==
    CASE addr \in 24576..32767 -> [M EXCEPT !.mmc.prg_ram = Store(@, addr - 24576, data)]
      [] addr \in 32768..65535 -> write_load(M, addr, data)
      [] OTHER -> M

(* The mapper behind the Mmc trait object (new_mmc). *)
Mmc_write_cpu(M, addr, data) ==
    IF M.mmc.mapper = "Mmc1" THEN Mmc1_write_cpu(M, addr, data)
    ELSE Mmc0_write_cpu(M, addr, data)

---------------------------------------------------------------------------
(* The mapper's PPU side (Mmc::read_ppu, Mmc::write_ppu).  chr maps an     *)
(* offset into the CHR image to its byte (bytes not listed are CHR_FILL);  *)
(* an index at or past chr_size is out of the slice rom.chr() and panics.  *)
(* An operator that can overflow takes the build from the machine it is    *)
(* given: InBuild adds the choice to a machine.                            *)

CHR_FILL == 0

InBuild(M, overflow_checks) ==
    [cpu |-> M.cpu, bus |-> M.bus, ppu |-> M.ppu, pbus |-> M.pbus, mmc |-> M.mmc,
     joypad1 |-> M.joypad1, joypad2 |-> M.joypad2, panic |-> M.panic,
     overflow_checks |-> overflow_checks]

(* self.rom.chr()[index] *)
ChrAt(M, index) ==
    IF index >= M.mmc.chr_size THEN [m |-> Panic(M), v |-> 0]
    ELSE [m |-> M, v |-> Load(M.mmc.chr, index, CHR_FILL)]

Mmc0_read_ppu(M, addr) ==
    IF addr \in 0..8191 THEN ChrAt(M, addr) ELSE [m |-> M, v |-> 0]

(* Mmc1Control::chr_rom_bank: bit 4 *)
chr_rom_bank(control) == Bit(control, 4) = 1

(* (chr_bank_0 & 0b1110) as u16 >> 1 *)
read_chr_bank_8kb(M, addr) == ChrAt(M, ((M.mmc.chr_bank_0 % 16) \div 2) * 8192 + addr)

(* bank * 0x1000 is a u16 product: from bank 16 on it overflows. *)
read_chr_bank_4kb(M, addr, overflow_checks) ==
    LET at(bank, offset) ==
            IF bank * 4096 > 65535 /\ overflow_checks THEN [m |-> Panic(M), v |-> 0]
            ELSE IF ((bank * 4096) % 65536) + offset > 65535 /\ overflow_checks
                 THEN [m |-> Panic(M), v |-> 0]
                 ELSE ChrAt(M, (((bank * 4096) % 65536) + offset) % 65536)
    IN CASE addr \in 0..4095 -> at(M.mmc.chr_bank_0, addr)
         [] addr \in 4096..8191 -> at(M.mmc.chr_bank_1, addr - 4096)
         [] OTHER -> [m |-> M, v |-> 0]

read_chr_bank(M, addr, overflow_checks) ==
    IF chr_rom_bank(M.mmc.control) THEN read_chr_bank_4kb(M, addr, overflow_checks)
    ELSE read_chr_bank_8kb(M, addr)

Mmc_read_ppu(M, addr) ==
    IF M.mmc.mapper = "Mmc1" THEN read_chr_bank(M, addr, M.overflow_checks)
    ELSE Mmc0_read_ppu(M, addr)

(* Both mappers ignore the write. *)
Mmc_write_ppu(M, addr, data) == M

---------------------------------------------------------------------------
(* Mmc1's CPU side (Mmc1::read_cpu).  An index at or past prg_size is out  *)
(* of the slice rom.prg() and panics; the bank products and sums are u16.  *)

(* self.rom.prg()[index] *)
PrgAt(M, index) ==
    IF index >= M.mmc.prg_size THEN [m |-> Panic(M), v |-> 0]
    ELSE [m |-> M, v |-> Load(M.mmc.prg, index, PRG_FILL)]

(* self.rom.prg()[(bank * unit + offset) as usize] *)
PrgBanked(M, bank, unit, offset, overflow_checks) ==
    IF bank * unit > 65535 /\ overflow_checks THEN [m |-> Panic(M), v |-> 0]
    ELSE IF ((bank * unit) % 65536) + offset > 65535 /\ overflow_checks
         THEN [m |-> Panic(M), v |-> 0]
         ELSE PrgAt(M, (((bank * unit) % 65536) + offset) % 65536)

(* Mmc1Control::prg_rom_bank: bits 3..2 *)
control_prg_rom_bank(control) == (control \div 4) % 4

(* Mmc1PrgBank::prg_rom_bank: bits 3..0 *)
prg_rom_bank(prg_bank) == prg_bank % 16

read_prg_bank_32kb(M, addr, overflow_checks) ==
    PrgBanked(M, (prg_rom_bank(M.mmc.prg_bank) - (prg_rom_bank(M.mmc.prg_bank) % 2)) \div 2,
              32768, addr - 32768, overflow_checks)

read_prg_bank_first_fixed(M, addr, overflow_checks) ==
    CASE addr \in 32768..49151 -> PrgAt(M, addr - 32768)
      [] addr \in 49152..65535 ->
             PrgBanked(M, prg_rom_bank(M.mmc.prg_bank), 16384, addr - 49152, overflow_checks)
      [] OTHER -> [m |-> M, v |-> 0]

(* The upper window is indexed from the end of the image: prg_size less    *)
(* the distance of the address from $FFFF (a usize difference; prg_size is *)
(* a multiple of 16 KiB and at least one bank).                            *)
read_prg_bank_last_fixed(M, addr, overflow_checks) ==
    CASE addr \in 32768..49151 ->
             PrgBanked(M, prg_rom_bank(M.mmc.prg_bank), 16384, addr - 32768, overflow_checks)
      [] addr \in 49152..65535 -> PrgAt(M, M.mmc.prg_size - (65535 - addr))
      [] OTHER -> [m |-> M, v |-> 0]

read_prg_bank(M, addr, overflow_checks) ==
    CASE control_prg_rom_bank(M.mmc.control) \in {0, 1} ->
             read_prg_bank_32kb(M, addr, overflow_checks)
      [] control_prg_rom_bank(M.mmc.control) = 2 ->
             read_prg_bank_first_fixed(M, addr, overflow_checks)
      [] OTHER -> read_prg_bank_last_fixed(M, addr, overflow_checks)

Mmc1_read_cpu(M, addr, overflow_checks) ==
    CASE addr \in 24576..32767 ->
             [m |-> M, v |-> Load(M.mmc.prg_ram, addr - 24576, PRG_RAM_FILL)]
      [] addr \in 32768..65535 -> read_prg_bank(M, addr, overflow_checks)
      [] OTHER -> [m |-> M, v |-> 0]

(* The mapper behind the Mmc trait object (new_mmc). *)
Mmc_read_cpu(M, addr) ==
    IF M.mmc.mapper = "Mmc1" THEN Mmc1_read_cpu(M, addr, M.overflow_checks)
    ELSE [m |-> M, v |-> Mmc0_read_cpu(M, addr)]

---------------------------------------------------------------------------
(* PpuBus::read and PpuBus::write *)

(* The mirror folding with the palette folded every 32 bytes and its cells *)
(* $10, $14, $18, $1C onto $00, $04, $08, $0C.                             *)
PpuFold_Mod32(addr) ==
    LET cell == addr % 32
    IN CASE addr \in 10240..16127 -> 8192 + ((addr - 10240) % 2048)
         [] addr \in 16128..16383 -> 16128 + (IF cell >= 16 /\ cell % 4 = 0 THEN cell - 16 ELSE cell)
         [] addr \in 16384..65535 -> addr - 16384
         [] OTHER -> addr

(* The first match of both functions: the arms are tried in order and one  *)
(* is taken, so an address folded by one arm is not folded again.          *)
PpuFold(addr) ==
    CASE addr \in 10240..16127 -> 8192 + ((addr - 10240) % 2048)
      [] addr \in 16144..16159 /\ addr % 4 = 0 -> addr - 16
      [] addr \in 16160..16383 -> 16128 + addr - 16160
      [] addr \in 16384..65535 -> addr - 16384
      [] OTHER -> addr

PpuBus_read(M, addr) ==
    LET f == PpuFold(addr)
    IN CASE f \in 0..8191 -> Mmc_read_ppu(M, f)
         [] f \in 8192..10239 -> [m |-> M, v |-> Load(M.pbus.vram, f - 8192, VRAM_FILL)]
         [] f \in 16128..16159 -> [m |-> M, v |-> Load(M.pbus.palette, f - 16128, PALETTE_FILL)]
         [] OTHER -> [m |-> M, v |-> 0]

PpuBus_write(M, addr, data) ==
    LET f == PpuFold(addr)
    IN CASE f \in 0..8191 -> Mmc_write_ppu(M, f, data)
         [] f \in 8192..10239 -> [M EXCEPT !.pbus.vram = Store(@, f - 8192, data)]
         [] f \in 16128..16159 -> [M EXCEPT !.pbus.palette = Store(@, f - 16128, data)]
         [] OTHER -> M

---------------------------------------------------------------------------
(* Ppu: the VRAM port ($2006 address, $2007 data).  The address is the two *)
(* bytes of the write latch.                                               *)

buffer_addr(M) ==
    IF Len(M.ppu.buffer) # 2 THEN 0 ELSE Word(M.ppu.buffer[2], M.ppu.buffer[1])

set_buffer_addr(M, addr) == [M EXCEPT !.ppu.buffer = <<Hi(addr), Lo(addr)>>]

(* The step of the address: 32 with CTRL bit 2 set, 1 otherwise. *)
AddrInc(M) == IF addr_inc_32(M.ppu.ctrl) THEN 32 ELSE 1

(* addr + increment is a u16 sum: past $FFFF it panics in a build with     *)
(* overflow checks and wraps in one without.                               *)
Advance(M, addr, overflow_checks) ==
    IF addr + AddrInc(M) > 65535 /\ overflow_checks THEN Panic(M)
    ELSE set_buffer_addr(M, (addr + AddrInc(M)) % 65536)

(* Ppu::read_vram_data leaving the address where it was. *)
read_vram_data_NoAdvance(M, overflow_checks) == PpuBus_read(M, buffer_addr(M))

read_vram_data(M, overflow_checks) ==
    LET after(r) ==
            IF r.m.panic THEN r
            ELSE [m |-> Advance(r.m, buffer_addr(M), overflow_checks), v |-> r.v]
    IN after(PpuBus_read(M, buffer_addr(M)))

write_vram_data(M, data, overflow_checks) ==
    Advance(PpuBus_write(M, buffer_addr(M), data), buffer_addr(M), overflow_checks)

---------------------------------------------------------------------------
(* Ppu::tick *)

(* Ppu::draw_bg and Ppu::draw_sprites fill the line buffers and            *)
(* Ppu::put_pixels the frame buffer, which are not part of this model's    *)
(* state.  Of the registers put_pixels touches STATUS alone: with MASK     *)
(* bits 3 and 4 both set it sets the sprite-0 hit bit when the line        *)
(* buffers satisfy its condition at the current dot; zero_hit stands for   *)
(* that condition.                                                         *)
RenderingOn(M) == mask_bg(M.ppu.mask) /\ mask_oam(M.ppu.mask)

ZeroHits(M) == IF RenderingOn(M) THEN BOOLEAN ELSE {FALSE}

(* The frame buffer (pixels, an ImageBuffer of VISIBLE_WIDTH by             *)
(* VISIBLE_HEIGHT RGBA pixels, all bytes zero when created) is kept as the *)
(* set of the runs <<first, last>> of consecutive pixels, numbered         *)
(* y * VISIBLE_WIDTH + x, that put_pixel has written.  Every pixel written *)
(* is an entry of COLORS, whose 64 entries all have alpha COLOR_ALPHA; the *)
(* colour bytes are not part of the model.                                 *)
COLORS_LEN == 64
COLOR_ALPHA == 255
PIXEL_FILL == 0

PutPixel(pixels, i) ==
    IF \E r \in pixels : r[1] <= i /\ i <= r[2] THEN pixels
    ELSE LET below == {r \in pixels : r[2] = i - 1}
             above == {r \in pixels : r[1] = i + 1}
             first == IF below = {} THEN i ELSE (CHOOSE r \in below : TRUE)[1]
             last == IF above = {} THEN i ELSE (CHOOSE r \in above : TRUE)[2]
         IN ((pixels \ below) \ above) \cup {<<first, last>>}

(* The alpha byte of pixel i in the frame buffer. *)
PixelAlpha(pixels, i) ==
    IF \E r \in pixels : r[1] <= i /\ i <= r[2] THEN COLOR_ALPHA ELSE PIXEL_FILL

(* The entries of the line buffers: a Color (an index into COLORS and      *)
(* whether the pattern index was 0) in bg_line, an OamColor (a Color, the  *)
(* sprite's priority bit and whether it is sprite 0) in oam_line.          *)
Color_default == [value |-> 0, transparent |-> TRUE]

OamColor_default == [color |-> Color_default, behind |-> FALSE, zero |-> FALSE]

(* The condition of Ppu::put_pixels on the line buffers under which, with  *)
(* MASK bits 3 and 4 set, it sets the sprite-0 hit bit.                    *)
zero_hit_condition(bg_color, sprite_color) ==
    sprite_color.zero /\ bg_color.transparent /\ sprite_color.color.transparent

(* The pixel Ppu::put_pixels composes, as an index into COLORS. *)
pixel_value(backdrop, mask, bg_color, sprite_color) ==
    LET bg == IF mask_bg(mask) /\ ~bg_color.transparent THEN bg_color.value ELSE backdrop
    IN IF mask_oam(mask)
       THEN IF sprite_color.behind
            THEN IF mask_bg(mask) \/ bg_color.transparent THEN sprite_color.color.value ELSE bg
            ELSE IF ~sprite_color.color.transparent THEN sprite_color.color.value ELSE bg
       ELSE bg

(* Ppu::put_pixels: COLORS[backdrop], backdrop being the byte read at      *)
(* $3F00, is an index into an array of 64 and panics from 64 on.           *)
put_pixels(M, zero_hit) ==
    LET put(backdrop) ==
            IF backdrop.m.panic THEN backdrop.m
            ELSE IF backdrop.v >= COLORS_LEN THEN Panic(backdrop.m)
            ELSE [backdrop.m EXCEPT
                     !.ppu.status = IF mask_bg(M.ppu.mask) /\ mask_oam(M.ppu.mask) /\ zero_hit
                                    THEN set_oam_0_hit(@, TRUE) ELSE @,
                     !.ppu.pixels = PutPixel(@, M.ppu.y * VISIBLE_WIDTH + M.ppu.x)]
    IN put(PpuBus_read(M, 16128))

Draw(M, zero_hit) == IF M.ppu.mode = "Drawing" THEN put_pixels(M, zero_hit) ELSE M

(* The dot and line counters: one more dot, a new line when the dot       *)
(* counter reaches WIDTH.                                                  *)
NextDot(M) ==
    LET c1 == M.ppu.cycles + 1
    IN IF c1 = WIDTH THEN [cycles |-> 0, lines |-> M.ppu.lines + 1]
       ELSE [cycles |-> c1, lines |-> M.ppu.lines]

(* The line at which the frame wraps: clears the VBlank flag and the NMI. *)
FrameWrap(P) ==
    IF P.cycles = 0 /\ P.lines = HEIGHT
    THEN [P EXCEPT !.lines = 0, !.status = set_irq_vblank(@, FALSE), !.nmi = FALSE]
    ELSE P

(* The line at which VBlank is entered: sets the flag, raises the NMI.    *)
VBlankEntry(P) ==
    IF P.cycles = 0 /\ P.lines = VISIBLE_HEIGHT
    THEN [P EXCEPT !.y = 0, !.mode = "VBlank", !.status = set_irq_vblank(@, TRUE),
                   !.nmi = IF ie_nmi(P.ctrl) THEN TRUE ELSE @]
    ELSE P

(* The mode of a visible line with the dots drawn going on to dot 257. *)
VisibleMode_DrawsDot257(P) ==
    IF P.lines < VISIBLE_HEIGHT
    THEN LET P1 == [P EXCEPT !.y = P.lines % 256]
         IN CASE P.cycles = 0 -> [P1 EXCEPT !.x = 0, !.mode = "Idle"]
              [] P.cycles \in 1..257 -> [P1 EXCEPT !.x = (P.cycles - 1) % 256, !.mode = "Drawing"]
              [] P.cycles \in 258..320 -> [P1 EXCEPT !.mode = "OamScan"]
              [] P.cycles \in 321..340 -> [P1 EXCEPT !.mode = "PostIdle"]
              [] OTHER -> P1
    ELSE P

(* The mode of a visible line, by dot. *)
VisibleMode(P) ==
    IF P.lines < VISIBLE_HEIGHT
    THEN LET P1 == [P EXCEPT !.y = P.lines % 256]
         IN CASE P.cycles = 0 -> [P1 EXCEPT !.x = 0, !.mode = "Idle"]
              [] P.cycles \in 1..256 -> [P1 EXCEPT !.x = (P.cycles - 1) % 256, !.mode = "Drawing"]
              [] P.cycles \in 257..320 -> [P1 EXCEPT !.mode = "OamScan"]
              [] P.cycles \in 321..340 -> [P1 EXCEPT !.mode = "PostIdle"]
              [] OTHER -> P1
    ELSE P

Ppu_tick(M, zero_hit) ==
    LET count(P) == [P EXCEPT !.cycles = NextDot(M).cycles, !.lines = NextDot(M).lines]
        after(M1) ==
            IF M1.panic THEN M1
            ELSE Draw([M1 EXCEPT !.ppu = VisibleMode(VBlankEntry(FrameWrap(count(@))))], zero_hit)
    IN after(PpuBus_tick([M EXCEPT !.ppu.cycles = M.ppu.cycles + 1]))

---------------------------------------------------------------------------
(* CpuBus *)

(* The mirror folding with work RAM folded from its first mirror only. *)
CpuFold_FirstMirror(addr) ==
    CASE addr \in 2048..4095 -> addr - 2048
      [] addr \in 8200..16383 -> 8192 + ((addr - 8200) % 8)
      [] OTHER -> addr

(* The mirror folding with the PPU registers folded from their first       *)
(* mirror only.                                                            *)
CpuFold_FirstRegisterMirror(addr) ==
    CASE addr \in 2048..8191 -> (addr - 2048) % 2048
      [] addr \in 8200..8207 -> addr - 8
      [] OTHER -> addr

(* The mirror folding of CpuBus::read and CpuBus::write. *)
CpuFold(addr) ==
    CASE addr \in 2048..8191 -> (addr - 2048) % 2048
      [] addr \in 8200..16383 -> 8192 + ((addr - 8200) % 8)
      [] OTHER -> addr

(* CpuBus::read: the byte read and the machine after the read's side       *)
(* effects.  The cartridge is read as Mmc0 reads it: no program and no     *)
(* transfer of the specifications below reads an Mmc1 cartridge's banks    *)
(* beyond the image Mmc0 shows.                                            *)
CpuBus_read(M, addr) ==
    LET f == CpuFold(addr)
    IN CASE f \in 0..2047 -> [m |-> M, v |-> Load(M.bus.wram, f, WRAM_FILL)]
         [] f = 8192 -> [m |-> M, v |-> M.ppu.ctrl]
         [] f = 8193 -> [m |-> M, v |-> M.ppu.mask]
         [] f = 8194 -> read_status(M)
         [] f = 8196 -> [m |-> M, v |-> 0]
         [] f = 8199 -> read_vram_data(M, M.overflow_checks)
         [] f \in 16384..16403 -> [m |-> M, v |-> 0]
         [] f = 16404 -> [m |-> M, v |-> read_oam_dma(M)]
         [] f = 16405 -> [m |-> M, v |-> 0]
         [] f = 16406 -> [m |-> [M EXCEPT !.joypad1 = Joypad_read(@).j],
                          v |-> Joypad_read(M.joypad1).v]
         [] f = 16407 -> [m |-> [M EXCEPT !.joypad2 = Joypad_read(@).j],
                          v |-> Joypad_read(M.joypad2).v]
         [] OTHER -> Mmc_read_cpu(M, f)

CpuBus_read_word(M, addr) ==
    LET with_low(low) ==
            LET with_high(high) == [m |-> high.m, v |-> Word(low.v, high.v)]
            IN with_high(CpuBus_read(low.m, wrapping_add16(addr, 1)))
    IN with_low(CpuBus_read(M, addr))

(* CpuBus::write (the APU registers accept the write and keep nothing     *)
(* this model reads)                                                       *)
CpuBus_write(M, addr, data) ==
    LET f == CpuFold(addr)
    IN CASE f \in 0..2047 -> [M EXCEPT !.bus.wram = Store(@, f, data)]
         [] f = 8192 -> write_ctrl(M, data)
         [] f = 8193 -> write_mask(M, data)
         [] f = 8194 -> write_status(M, data)
         [] f = 8195 -> write_oam_addr(M, data)
         [] f = 8196 -> write_oam_data(M, data)
         [] f = 8197 -> write_scroll(M, data)
         [] f = 8198 -> write_vram_addr(M, data)
         [] f = 8199 -> write_vram_data(M, data, M.overflow_checks)
         [] f = 16404 -> write_oam_dma(M, data)
         [] f = 16406 -> [M EXCEPT !.joypad1 = Joypad_write(@, data)]
         [] f = 16407 -> [M EXCEPT !.joypad2 = Joypad_write(@, data)]
         [] f \in 16416..65535 -> Mmc_write_cpu(M, f, data)
         [] OTHER -> M

CpuBus_write_word(M, addr, data) ==
    CpuBus_write(CpuBus_write(M, addr, Lo(data)), wrapping_add16(addr, 1), Hi(data))

(* The read loop of CpuBus::tick: for i in addr..(addr + 0x0100), each    *)
(* byte read through CpuBus::read.  The reads with a side effect are the  *)
(* one of STATUS, whose effect is the same however often it is done, and  *)
(* those of the joypad ports, each of which a page holds once: a byte is  *)
(* read from the machine as the earlier reads left it.  (The pages the    *)
(* specifications below transfer hold no mirror of $2007.)                *)
DmaRead(M, start, stop) ==
    LET touched(i, port) == \E j \in start..(i - 1) : CpuFold(j) = port
        after(M0, i, port) == IF touched(i, port) THEN CpuBus_read(M0, port).m ELSE M0
        before(i) == after(after(after(M, i, 8194), i, 16406), i, 16407)
    IN [m |-> before(stop),
        data |-> [k \in 1..(IF stop > start THEN stop - start ELSE 0) |->
                     CpuBus_read(before(start + k - 1), start + k - 1).v]]

(* CpuBus::tick with a stall that ignores the parity of the cycle counter. *)
CpuBus_tick_EvenOnly(M, overflow_checks) ==
    IF M.bus.event = <<>> THEN M
    ELSE LET ev == Head(M.bus.event)
             send(r) ==
                 [r.m EXCEPT !.pbus.event = Append(@, [data |-> r.data, oam_addr |-> ev.oam_addr]),
                             !.bus.stalls = @ + DMA_STALL]
             serve(M0) ==
                 IF ev.addr + 256 > 65535 /\ overflow_checks THEN Panic(M0)
                 ELSE send(DmaRead(M0, ev.addr, (ev.addr + 256) % 65536))
         IN serve([M EXCEPT !.bus.event = Tail(@)])

(* CpuBus::tick: serve one queued DMA request.  addr + 0x0100 is a u16    *)
(* sum: for addr = $FF00 it overflows, which panics in a build with       *)
(* overflow checks and wraps to 0 (an empty range) in one without.        *)
CpuBus_tick(M, overflow_checks) ==
    IF M.bus.event = <<>> THEN M
    ELSE LET ev == Head(M.bus.event)
             overflow == ev.addr + 256 > 65535
             send(r) ==
                 [r.m EXCEPT !.pbus.event = Append(@, [data |-> r.data, oam_addr |-> ev.oam_addr]),
                             !.bus.stalls = @ + DMA_STALL + (IF r.m.bus.cycles % 2 = 0 THEN 0 ELSE 1)]
             serve(M0) ==
                 IF overflow /\ overflow_checks THEN Panic(M0)
                 ELSE send(DmaRead(M0, ev.addr, (ev.addr + 256) % 65536))
         IN serve([M EXCEPT !.bus.event = Tail(@)])

(* CpuBus::nmi: the PPU's request, taken (and cleared) by the poll. *)
CpuBus_nmi(M) == [m |-> [M EXCEPT !.ppu.nmi = FALSE], v |-> M.ppu.nmi]

---------------------------------------------------------------------------
(* Cpu: the status register P (cpu.rs, bitfield! P) *)

p_i(p) == Bit(p, 2) = 1

set_i(p, b) == WithBit(p, 2, b)

(* b: the two-bit field at bits 5..4 *)
p_b(p) == (p \div 16) % 4

(* set_b: the two-bit field at bits 5..4 *)
set_b(p, b) == p - (Bit(p, 5) * 32 + Bit(p, 4) * 16) + (b % 4) * 16

p_c(p) == Bit(p, 0) = 1

set_c(p, b) == WithBit(p, 0, b)

p_v(p) == Bit(p, 6) = 1

set_v(p, b) == WithBit(p, 6, b)

p_z(p) == Bit(p, 1) = 1

p_n(p) == Bit(p, 7) = 1

set_z_by(p, val) == WithBit(p, 1, val = 0)

set_n_by(p, val) == WithBit(p, 7, val >= 128)

set_zn_by(p, val) == set_n_by(set_z_by(p, val), val)

---------------------------------------------------------------------------
(* Cpu: the stack *)

push_8(M, data) ==
    LET M1 == CpuBus_write(M, STACK_BASE + M.cpu.s, data)
    IN [M1 EXCEPT !.cpu.s = wrapping_sub8(@, 1)]

pop_8(M) ==
    LET M1 == [M EXCEPT !.cpu.s = wrapping_add8(@, 1)]
    IN CpuBus_read(M1, STACK_BASE + M1.cpu.s)

push_16(M, data) ==
    LET write(M1) ==
            LET after(M2) == [M2 EXCEPT !.cpu.s = wrapping_sub8(@, 1)]
            IN after(CpuBus_write_word(M1, STACK_BASE + M1.cpu.s, data))
    IN write([M EXCEPT !.cpu.s = wrapping_sub8(@, 1)])

pop_16(M) ==
    LET read(M1) ==
            LET after(r) == [m |-> [r.m EXCEPT !.cpu.s = wrapping_add8(@, 1)], v |-> r.v]
            IN after(CpuBus_read_word(M1, STACK_BASE + M1.cpu.s))
    IN read([M EXCEPT !.cpu.s = wrapping_add8(@, 1)])

---------------------------------------------------------------------------
(* Cpu::interrupt *)

(* The entry sequence shared by NMI and IRQ: push PC, load the vector,    *)
(* push P with the B field set to 10, set I.                               *)
InterruptEntry(M, vector) ==
    LET set_flag(M3) == [M3 EXCEPT !.cpu.p = set_i(@, TRUE)]
        push_p(M2) == set_flag(push_8(M2, set_b(M2.cpu.p, 2)))
        jump(r) == push_p([r.m EXCEPT !.cpu.pc = r.v])
        load(M1) == jump(CpuBus_read_word(M1, vector))
    IN load(push_16(M, M.cpu.pc))

interrupt(M) ==
    LET irq(M1) == IF ~p_i(M1.cpu.p) /\ M1.cpu.irq THEN InterruptEntry(M1, 65534) ELSE M1
        nmi(n) == irq(IF n.v THEN InterruptEntry(n.m, 65530) ELSE n.m)
    IN nmi(CpuBus_nmi(M))

---------------------------------------------------------------------------
(* Cpu: operand addressing (read_operand_addr) and the instructions *)

read_operand_addr_immediate(M) ==
    [m |-> [M EXCEPT !.cpu.pc = wrapping_add16(@, 1)], v |-> M.cpu.pc]

read_operand_addr_absolute(M, index) ==
    LET after(r) ==
            [m |-> [r.m EXCEPT !.cpu.pc = wrapping_add16(@, 2)], v |-> wrapping_add16(r.v, index)]
    IN after(CpuBus_read_word(M, M.cpu.pc))

read_operand_addr(M, mode) ==
    CASE mode = "Immediate" -> read_operand_addr_immediate(M)
      [] mode = "Absolute" -> read_operand_addr_absolute(M, 0)

nop(M, padding) == [M EXCEPT !.cpu.pc = wrapping_add16(@, padding)]

lda(M, mode) ==
    LET load(r) == [r.m EXCEPT !.cpu.a = r.v, !.cpu.p = set_zn_by(@, r.v)]
        read(ad) == load(CpuBus_read(ad.m, ad.v))
    IN read(read_operand_addr(M, mode))

ldx(M, mode) ==
    LET load(r) == [r.m EXCEPT !.cpu.x = r.v, !.cpu.p = set_zn_by(@, r.v)]
        read(ad) == load(CpuBus_read(ad.m, ad.v))
    IN read(read_operand_addr(M, mode))

(* Cpu::is_overflow_positive, Cpu::is_overflow_negative: the sign of      *)
(* left + right (left - right), modulo 256, against the signs of the two.  *)
is_overflow_positive(left, right) ==
    LET s1 == left >= 128
        s2 == right >= 128
        s3 == wrapping_add8(left, right) >= 128
    IN (s1 /\ s2 /\ ~s3) \/ (~s1 /\ ~s2 /\ s3)

is_overflow_negative(left, right) ==
    LET s1 == left >= 128
        s2 == right >= 128
        s3 == wrapping_sub8(left, right) >= 128
    IN (~s1 /\ s2 /\ s3) \/ (s1 /\ ~s2 /\ ~s3)

(* Cpu::adc: the two overflowing_add steps, left + right and then + c,     *)
(* with the carries and the signed overflows of both steps or-ed.          *)
adc(M, mode) ==
    LET left == M.cpu.a
        c == IF p_c(M.cpu.p) THEN 1 ELSE 0
        add(r) ==
            LET right == r.v
                result1 == wrapping_add8(left, right)
                c1 == left + right > 255
                result2 == wrapping_add8(result1, c)
                c2 == result1 + c > 255
                v1 == is_overflow_positive(left, right)
                v2 == is_overflow_positive(result1, c)
            IN [r.m EXCEPT !.cpu.a = result2,
                           !.cpu.p = set_c(set_v(set_zn_by(@, result2), v1 \/ v2), c1 \/ c2)]
        read(ad) == add(CpuBus_read(ad.m, ad.v))
    IN read(read_operand_addr(M, mode))

(* Cpu::sbc: the two overflowing_sub steps, left - right and then - c with *)
(* c = 1 when the carry flag is clear.                                     *)
sbc(M, mode) ==
    LET left == M.cpu.a
        c == IF p_c(M.cpu.p) THEN 0 ELSE 1
        sub(r) ==
            LET right == r.v
                result1 == wrapping_sub8(left, right)
                c1 == left < right
                result2 == wrapping_sub8(result1, c)
                c2 == result1 < c
                v1 == is_overflow_negative(left, right)
                v2 == is_overflow_negative(result1, c)
            IN [r.m EXCEPT !.cpu.a = result2,
                           !.cpu.p = set_c(set_v(set_zn_by(@, result2), v1 \/ v2),
                                           ~(c1 \/ c2))]
        read(ad) == sub(CpuBus_read(ad.m, ad.v))
    IN read(read_operand_addr(M, mode))

sta(M, mode) ==
    LET write(ad) == CpuBus_write(ad.m, ad.v, M.cpu.a)
    IN write(read_operand_addr(M, mode))

txs(M) == [M EXCEPT !.cpu.s = M.cpu.x]

(* The instructions that use the stack.  pc + 1, pc - 1 and pop_16()? + 1  *)
(* are plain u16 arithmetic: out of range they panic in a build with       *)
(* overflow checks and wrap in one without.                                *)
brk(M, overflow_checks) ==
    LET enter(r) ==
            LET pushed(M2) ==
                    [push_8(M2, set_b(M2.cpu.p, 3)) EXCEPT !.cpu.p = set_i(@, TRUE),
                                                            !.cpu.pc = r.v]
            IN IF r.m.cpu.pc = 65535 /\ overflow_checks THEN Panic(r.m)
               ELSE pushed(push_16(r.m, (r.m.cpu.pc + 1) % 65536))
    IN enter(CpuBus_read_word(M, 65534))

jsr(M, mode, overflow_checks) ==
    LET call(ad) ==
            IF ad.m.cpu.pc = 0 /\ overflow_checks THEN Panic(ad.m)
            ELSE [push_16(ad.m, (ad.m.cpu.pc + 65535) % 65536) EXCEPT !.cpu.pc = ad.v]
    IN call(read_operand_addr(M, mode))

rti(M) ==
    LET return(r16) == [r16.m EXCEPT !.cpu.pc = r16.v]
        flags(r8) == return(pop_16([r8.m EXCEPT !.cpu.p = set_b(r8.v, p_b(M.cpu.p))]))
    IN flags(pop_8(M))

(* Cpu::rts returning to the address popped. *)
rts_NoIncrement(M, overflow_checks) ==
    LET return(r) == [r.m EXCEPT !.cpu.pc = r.v]
    IN return(pop_16(M))

rts(M, overflow_checks) ==
    LET return(r) ==
            IF r.v = 65535 /\ overflow_checks THEN Panic(r.m)
            ELSE [r.m EXCEPT !.cpu.pc = (r.v + 1) % 65536]
    IN return(pop_16(M))

php(M) == push_8(M, set_b(M.cpu.p, 3))

plp(M) ==
    LET flags(r) == [r.m EXCEPT !.cpu.p = set_b(r.v, p_b(M.cpu.p))]
    IN flags(pop_8(M))

pha(M) == push_8(M, M.cpu.a)

pla(M) ==
    LET load(r) == [r.m EXCEPT !.cpu.a = r.v, !.cpu.p = set_zn_by(@, r.v)]
    IN load(pop_8(M))

(* Cpu::stp, Cpu::shy, Cpu::shx: unimplemented!(), a panic. *)
stp(M) == Panic(M)

shy(M, mode) == Panic(M)

shx(M, mode) == Panic(M)

(* Cpu::do_mnemonic, for the opcodes the cartridges of this model hold.   *)
(* Every byte matches one of the patterns of the decoder before its last   *)
(* arm (`_`, which logs the opcode and returns Ok): STP is $02, $22, $42,  *)
(* $62 and $12, $32, ..., $F2.                                             *)
OPC_NOP == 234
OPC_LDA_IMM == 169
OPC_LDA_ABS == 173
OPC_STA_ABS == 141
OPC_LDX_IMM == 162
OPC_TXS == 154
OPC_BRK == 0
OPC_JSR == 32
OPC_RTI == 64
OPC_RTS == 96
OPC_PHP == 8
OPC_PLP == 40
OPC_PHA == 72
OPC_PLA == 104
OPC_STP == 2
OPC_STP_12 == 18
OPC_SHY == 156
OPC_SHX == 158
OPC_ADC_IMM == 105
OPC_SBC_IMM == 233

Opcodes ==
    {OPC_NOP, OPC_LDA_IMM, OPC_LDA_ABS, OPC_STA_ABS, OPC_LDX_IMM, OPC_TXS,
     OPC_BRK, OPC_JSR, OPC_RTI, OPC_RTS, OPC_PHP, OPC_PLP, OPC_PHA, OPC_PLA,
     OPC_STP, OPC_STP_12, OPC_SHY, OPC_SHX, OPC_ADC_IMM, OPC_SBC_IMM}

do_mnemonic(M, opecode, overflow_checks) ==
    CASE opecode = OPC_NOP -> nop(M, 0)
      [] opecode = OPC_BRK -> brk(M, overflow_checks)
      [] opecode = OPC_JSR -> jsr(M, "Absolute", overflow_checks)
      [] opecode = OPC_RTI -> rti(M)
      [] opecode = OPC_RTS -> rts(M, overflow_checks)
      [] opecode = OPC_PHP -> php(M)
      [] opecode = OPC_PLP -> plp(M)
      [] opecode = OPC_PHA -> pha(M)
      [] opecode = OPC_PLA -> pla(M)
      [] opecode = OPC_LDA_IMM -> lda(M, "Immediate")
      [] opecode = OPC_LDA_ABS -> lda(M, "Absolute")
      [] opecode = OPC_STA_ABS -> sta(M, "Absolute")
      [] opecode = OPC_LDX_IMM -> ldx(M, "Immediate")
      [] opecode = OPC_TXS -> txs(M)
      [] opecode = OPC_ADC_IMM -> adc(M, "Immediate")
      [] opecode = OPC_SBC_IMM -> sbc(M, "Immediate")
      [] opecode = OPC_STP -> stp(M)
      [] opecode = OPC_STP_12 -> stp(M)
      [] opecode = OPC_SHY -> shy(M, "AbsoluteIndexedX")
      [] opecode = OPC_SHX -> shx(M, "AbsoluteIndexedY")

---------------------------------------------------------------------------
(* Cpu::tick *)

(* The first half of Cpu::tick: count the cycle, let the bus serve a DMA. *)
TickBus(M, overflow_checks) ==
    CpuBus_tick([M EXCEPT !.bus.cycles = wrapping_add8(@, 1)], overflow_checks)

(* The rest of Cpu::tick, on the machine the bus left: a panic ends it, a *)
(* stall is counted down, a halted CPU polls the interrupts and stops, and *)
(* otherwise an instruction is fetched and executed.                       *)
AfterBusKind(M1) ==
    IF M1.panic THEN "panic"
    ELSE IF M1.bus.stalls > 0 THEN "stall"
    ELSE IF M1.cpu.halt THEN "halt"
    ELSE "instr"

TickKind(M, overflow_checks) == AfterBusKind(TickBus(M, overflow_checks))

(* The fetch and execute of Cpu::tick. *)
FetchExecute(M, overflow_checks) ==
    LET execute(op) ==
            do_mnemonic([op.m EXCEPT !.cpu.pc = wrapping_add16(@, 1)], op.v, overflow_checks)
        fetch(M2) == IF M2.cpu.halt THEN M2 ELSE execute(CpuBus_read(M2, M2.cpu.pc))
    IN fetch(interrupt(M))

(* The rest of Cpu::tick polling the interrupts in a stalled tick too. *)
AfterBus_PollsInStall(M1, overflow_checks) ==
    IF M1.panic THEN M1
    ELSE IF M1.bus.stalls > 0 THEN [interrupt(M1) EXCEPT !.bus.stalls = @ - 1]
    ELSE FetchExecute(M1, overflow_checks)

AfterBus(M1, overflow_checks) ==
    IF M1.panic THEN M1
    ELSE IF M1.bus.stalls > 0 THEN [M1 EXCEPT !.bus.stalls = @ - 1]
    ELSE FetchExecute(M1, overflow_checks)

Cpu_tick(M, overflow_checks) == AfterBus(TickBus(M, overflow_checks), overflow_checks)

---------------------------------------------------------------------------
(* Construction (Nes::new) and Cpu::reset *)

EmptyMem == [k \in {} |-> 0]

Cpu_new ==
    [a |-> 0, x |-> 0, y |-> 0, s |-> 253, p |-> 36, pc |-> 0, irq |-> FALSE, halt |-> FALSE]

CpuBus_new == [cycles |-> 0, stalls |-> 0, wram |-> EmptyMem, event |-> <<>>]

Ppu_new ==
    [ctrl |-> 0, mask |-> 0, status |-> 0, dma_addr |-> 0, oam_addr |-> 0, buffer |-> <<>>,
     mode |-> "Idle", x |-> 0, y |-> 0, scroll_x |-> 0, scroll_y |-> 0,
     cycles |-> 0, lines |-> 0, pixels |-> {}, nmi |-> FALSE]

PpuBus_new == [vram |-> EmptyMem, palette |-> EmptyMem, oam |-> EmptyMem, event |-> <<>>]

(* Cpu::reset leaving the stall counter as it is. *)
Cpu_reset_KeepsStall(M) ==
    LET set(r) == [r.m EXCEPT !.cpu.a = 0, !.cpu.x = 0, !.cpu.y = 0, !.cpu.s = 253,
                              !.cpu.p = 36, !.cpu.pc = r.v]
    IN set(CpuBus_read_word(M, 65532))

(* Cpu::reset leaving work RAM as CpuBus::new does. *)
Cpu_reset_ClearsRam(M) ==
    LET set(r) == [r.m EXCEPT !.cpu.a = 0, !.cpu.x = 0, !.cpu.y = 0, !.cpu.s = 253,
                              !.cpu.p = 36, !.cpu.pc = r.v, !.bus.stalls = 0,
                              !.bus.wram = EmptyMem]
    IN set(CpuBus_read_word(M, 65532))

Cpu_reset(M) ==
    LET set(r) == [r.m EXCEPT !.cpu.a = 0, !.cpu.x = 0, !.cpu.y = 0, !.cpu.s = 253,
                              !.cpu.p = 36, !.cpu.pc = r.v, !.bus.stalls = 0]
    IN set(CpuBus_read_word(M, 65532))

(* A cartridge: 32 KiB of PRG-ROM holding a program at RESET_VECTOR and   *)
(* the three vectors; every other byte is PRG_FILL (a NOP).                *)
RESET_VECTOR == Word(0, 128)
NMI_VECTOR == Word(0, 144)
IRQ_VECTOR == Word(0, 160)

RECURSIVE Flatten(_)
Flatten(ss) == IF ss = <<>> THEN <<>> ELSE Head(ss) \o Flatten(Tail(ss))

Cartridge(program) ==
    LET code == Flatten(program)
        vectors == [k \in 32762..32767 |->
                       CASE k = 32762 -> Lo(NMI_VECTOR) [] k = 32763 -> Hi(NMI_VECTOR)
                         [] k = 32764 -> Lo(RESET_VECTOR) [] k = 32765 -> Hi(RESET_VECTOR)
                         [] k = 32766 -> Lo(IRQ_VECTOR) [] k = 32767 -> Hi(IRQ_VECTOR)]
    IN [mapper |-> "Mmc0",
        chr_size |-> 8192,
        chr |-> [k \in {} |-> 0],
        prg_size |-> 32768,
        prg |-> [k \in (0..(Len(code) - 1)) \cup (32762..32767) |->
                    IF k < Len(code) THEN code[k + 1] ELSE vectors[k]],
        prg_ram |-> EmptyMem]

(* Mmc1::new: the same image behind an Mmc1, its load port and registers  *)
(* at zero.                                                                *)
Mmc1_new(rom) ==
    [mapper |-> "Mmc1", chr_size |-> rom.chr_size, chr |-> rom.chr,
     prg_size |-> rom.prg_size, prg |-> rom.prg, prg_ram |-> EmptyMem,
     latch |-> 0, counter |-> 0,
     control |-> 0, chr_bank_0 |-> 0, chr_bank_1 |-> 0, prg_bank |-> 0]

(* Nes::new followed by Nes::reset, as main does. *)
Nes_new(program) ==
    Cpu_reset([cpu |-> Cpu_new, bus |-> CpuBus_new, ppu |-> Ppu_new, pbus |-> PpuBus_new,
               mmc |-> Cartridge(program), joypad1 |-> Joypad_new, joypad2 |-> Joypad_new,
               panic |-> FALSE])

(* The PPU fields as Ppu::tick leaves them at dot d of visible line l with *)
(* rendering off (the pixels of the lines before l and of the dots up to d *)
(* put), and the CPU cycle counter after as many ticks.                    *)
AtDot(M, l, d) ==
    [M EXCEPT !.ppu.lines = l, !.ppu.cycles = d, !.ppu.y = l,
              !.ppu.pixels = IF l = 0 /\ d = 0 THEN {}
                             ELSE {<<0, l * VISIBLE_WIDTH + (IF d <= 256 THEN d ELSE 256) - 1>>},
              !.ppu.x = IF d = 0 THEN 0 ELSE IF d <= 256 THEN d - 1 ELSE 255,
              !.ppu.mode = IF d = 0 THEN "Idle" ELSE IF d <= 256 THEN "Drawing"
                           ELSE IF d <= 320 THEN "OamScan" ELSE "PostIdle",
              !.bus.cycles = (l * WIDTH + d) % 256]

(* What a run has done so far, recorded beside the machine:               *)
(*   cpuTicks, ppuTicks  the calls of Cpu::tick and Ppu::tick;             *)
(*   instrs, kind        the instructions executed, what the last CPU tick *)
(*                       did ("panic", "stall", "halt", "instr");          *)
(*   instrAt, gap        the CPU tick of the last instruction, and how     *)
(*                       many CPU ticks after the one before it it came;   *)
(*   wrote               the last instruction wrote $4014;                 *)
(*   dma                 the page and the OAM address of the last request  *)
(*                       ($4014 write), <<>> while there was none;         *)
(*   served, added       the cycle counter at which CpuBus::tick served    *)
(*                       the last request, and the stall it added;         *)
(*   entry               the registers as Cpu::interrupt left them the     *)
(*                       last time it took an NMI (before the fetch that   *)
(*                       follows in the same tick), <<>> before the first; *)
(*   nmis, asserts       the NMIs taken, and the times the NMI request     *)
(*                       went from clear to set;                           *)
(*   sinceLine, lineLen  the PPU ticks since the dot counter was last 0,   *)
(*                       and the ticks the last completed line took;       *)
(*   sinceFrame, frameLen, frameLines  the same for the frame (position    *)
(*                       line 0, dot 0), and the lines it had;             *)
(*   ops, horizon        the register accesses made through the port, and  *)
(*                       the PPU ticks the run is followed for;            *)
(*   reads, lastRead, latchAtRead  the reads of $2002, the byte the last   *)
(*                       returned and the write latch's length before it;  *)
(*   setReads, vbReads   since the last VBlank entry: the reads of $2002   *)
(*                       that returned bit 7 set, and the reads made while *)
(*                       the PPU was in VBlank;                            *)
(*   ctrlWrites, lastCtrl  the writes of $2000 and the byte the last wrote; *)
(*   loads, lastAddr, lastData  the writes to the cartridge's load port,   *)
(*                       the address and the byte of the last;             *)
(*   bits                the data bits 0 of the writes with bit 7 clear    *)
(*                       since the last write with bit 7 set or the last   *)
(*                       fifth such write;                                 *)
(*   loadBits, commit, value  of the last write, if it was a fifth: the    *)
(*                       five data bits in write order, the register that  *)
(*                       Mmc1::copy_register assigned ("none" if no arm    *)
(*                       matched) and the latch value it was called with;  *)
(*   padReads, padWrites, keyEvents  the reads and the writes of $4016 and *)
(*                       the key events of player 1;                       *)
(*   lastPad, prevPad    the bytes the last read of $4016 and the one      *)
(*                       before it returned;                               *)
(*   fallen, sinceFall   the strobe has gone from set to clear and has not *)
(*                       been set since, and the reads of $4016 made since *)
(*                       it did;                                           *)
(*   strobeReads         the reads of $4016 since the last write of it;    *)
(*   resets, prior       the calls of Nes::reset, and the CPU registers    *)
(*                       and the stall counter the last call found;        *)
(*   ramWrites, ramAddr, ramData  the writes to $0000-$1FFF made through   *)
(*                       the bus, the address and the byte of the last;    *)
(*   regOps, lastReg, lastMirror  the accesses of $2000-$3FFF, the         *)
(*                       register (0..7) and the mirror (0 for $2000-$2007) *)
(*                       of the last;                                      *)
(*   palWrites, palAddr, palData  the writes made on the PPU bus at        *)
(*                       $3F00-$3FFF, the address and the byte of the last; *)
(*   vramOps, access     the accesses of the VRAM port ($2002, $2000,      *)
(*                       $2006, $2007), and what the last did at $2007     *)
(*                       ("read", "write", "none" for another register);   *)
(*   latch, hiByte, expect  the writes of $2006 since the last read of     *)
(*                       $2002 or the last pair ("reset", "hi", "set", or  *)
(*                       "unknown" after a $2007 access in the middle of a *)
(*                       pair), the first byte of the pair, and after a    *)
(*                       pair the address hi * 256 + lo advanced, modulo   *)
(*                       $10000, by the increment of every $2007 access    *)
(*                       since;                                            *)
(*   vramData, stored    the byte of the last $2007 access, and the        *)
(*                       addresses of the $2007 writes since the last      *)
(*                       pair;                                             *)
(*   latchOps, sinceRead, oddReset  the accesses of $2002, $2005 and       *)
(*                       $2006, the writes <<register, byte>> since the    *)
(*                       last read of $2002, and whether that read (if     *)
(*                       any: latchReads) came after an odd number of      *)
(*                       writes;                                           *)
(*   oamOps, oamSet, oamBase, oamBytes  the writes of $2003 and $2004,     *)
(*                       whether $2003 has been written and the last byte  *)
(*                       written to it, and the bytes written to $2004     *)
(*                       since;                                            *)
(*   callAt, callS, depth, maxDepth, returned  the program counter and the *)
(*                       stack pointer at the start of the run, the JSRs   *)
(*                       executed and not yet returned from and the most   *)
(*                       there were, and whether the last instruction was  *)
(*                       the RTS that matches the first JSR;               *)
(*   pending, waited     the CPU ticks in a row that began with the NMI    *)
(*                       request set and did not take it, and how many     *)
(*                       there were before the last NMI taken;             *)
(*   wordOps, twin       the pushes and pops of words made on the stack,   *)
(*                       and work RAM, S and the value popped as the same  *)
(*                       operation made byte by byte leaves them;          *)
(*   lastWord, pushed, byBytes  the word the last pop returned, the word   *)
(*                       the last operation pushed byte by byte (<<>> if   *)
(*                       it did not), and the word pushed byte by byte     *)
(*                       just before the last operation, a pop (<<>>       *)
(*                       otherwise);                                       *)
(*   drawn, bgAt, spriteAt, pixel  the last PPU tick drew a dot, the       *)
(*                       entries of the line buffers it found at that dot  *)
(*                       and the index into COLORS of the pixel it put;    *)
(*   examined, rows      how often draw_sprites has compared each OAM      *)
(*                       entry with the line since the line began, and the *)
(*                       pairs <<entry, row>> of the entries it selected   *)
(*                       and the pattern row draw_sprite fetched for each; *)
(*   prgReads, prgAddr, prgData  the reads of PRG-ROM made through the     *)
(*                       bus, the address of the last and the byte it      *)
(*                       returned.                                         *)
Obs_new ==
    [cpuTicks |-> 0, ppuTicks |-> 0, instrs |-> 0, kind |-> "none", instrAt |-> 0, gap |-> 0,
     wrote |-> FALSE, dma |-> <<>>, served |-> 0, added |-> 0,
     entry |-> <<>>, nmis |-> 0, asserts |-> 0,
     sinceLine |-> 0, lineLen |-> 0, sinceFrame |-> 0, frameLen |-> 0, frameLines |-> 0,
     ops |-> 0, horizon |-> 0,
     reads |-> 0, lastRead |-> 0, latchAtRead |-> 0, setReads |-> 0, vbReads |-> 0,
     ctrlWrites |-> 0, lastCtrl |-> 0,
     loads |-> 0, lastAddr |-> 0, lastData |-> 0, bits |-> <<>>, loadBits |-> <<>>,
     commit |-> "none", value |-> 0,
     padReads |-> 0, padWrites |-> 0, keyEvents |-> 0, lastPad |-> 0, prevPad |-> 0,
     fallen |-> FALSE, sinceFall |-> 0, strobeReads |-> 0,
     resets |-> 0, prior |-> <<>>,
     ramWrites |-> 0, ramAddr |-> 0, ramData |-> 0,
     regOps |-> 0, lastReg |-> 0, lastMirror |-> 0,
     palWrites |-> 0, palAddr |-> 0, palData |-> 0,
     vramOps |-> 0, access |-> "none", latch |-> "reset", hiByte |-> 0, expect |-> 0,
     vramData |-> 0, stored |-> <<>>,
     latchOps |-> 0, latchReads |-> 0, sinceRead |-> <<>>, oddReset |-> FALSE,
     oamOps |-> 0, oamSet |-> FALSE, oamBase |-> 0, oamBytes |-> <<>>,
     callAt |-> 0, callS |-> 0, depth |-> 0, maxDepth |-> 0, returned |-> FALSE,
     pending |-> 0, waited |-> 0,
     wordOps |-> 0, twin |-> <<>>, lastWord |-> 0, pushed |-> <<>>, byBytes |-> <<>>,
     drawn |-> FALSE, bgAt |-> <<>>, spriteAt |-> <<>>, pixel |-> 0,
     examined |-> [i \in 0..63 |-> 0], rows |-> {},
     prgReads |-> 0, prgAddr |-> 0, prgData |-> 0]

CpuObserved(o, M, B, R, kind) ==
    LET requested == R.bus.event # <<>>
        serving == M.bus.event # <<>> /\ ~B.panic
        polled == kind \in {"instr", "halt"}
        taken == polled /\ B.ppu.nmi
        raised == ~M.ppu.nmi /\ R.ppu.nmi
    IN [o EXCEPT !.cpuTicks = @ + 1,
                 !.instrs = IF kind = "instr" THEN @ + 1 ELSE @,
                 !.kind = kind,
                 !.instrAt = IF kind = "instr" THEN o.cpuTicks + 1 ELSE @,
                 !.gap = IF kind = "instr" THEN o.cpuTicks + 1 - o.instrAt ELSE @,
                 !.wrote = IF kind = "instr" THEN requested ELSE @,
                 !.dma = IF requested
                         THEN [h |-> R.bus.event[Len(R.bus.event)].addr \div 256,
                               a |-> R.bus.event[Len(R.bus.event)].oam_addr]
                         ELSE @,
                 !.served = IF serving THEN B.bus.cycles ELSE @,
                 !.added = IF serving THEN B.bus.stalls - M.bus.stalls ELSE @,
                 !.entry = IF taken THEN interrupt(B).cpu ELSE @,
                 !.nmis = IF taken THEN @ + 1 ELSE @,
                 !.pending = IF M.ppu.nmi /\ ~taken THEN @ + 1 ELSE 0,
                 !.waited = IF taken THEN o.pending ELSE @,
                 !.asserts = IF raised THEN @ + 1 ELSE @]

PpuObserved(o, M, R) ==
    LET newLine == R.ppu.cycles = 0
        newFrame == R.ppu.cycles = 0 /\ R.ppu.lines = 0
        entered == R.ppu.cycles = 0 /\ R.ppu.lines = VISIBLE_HEIGHT
    IN [o EXCEPT !.ppuTicks = @ + 1,
                 !.asserts = IF ~M.ppu.nmi /\ R.ppu.nmi THEN @ + 1 ELSE @,
                 !.sinceLine = IF newLine THEN 0 ELSE @ + 1,
                 !.lineLen = IF newLine THEN o.sinceLine + 1 ELSE @,
                 !.sinceFrame = IF newFrame THEN 0 ELSE @ + 1,
                 !.frameLen = IF newFrame THEN o.sinceFrame + 1 ELSE @,
                 !.frameLines = IF newFrame THEN M.ppu.lines + 1 ELSE @,
                 !.setReads = IF entered THEN 0 ELSE @,
                 !.vbReads = IF entered THEN 0 ELSE @]

StartAs(M, t, horizon) ==
    /\ cpu = M.cpu
    /\ bus = M.bus
    /\ ppu = M.ppu
    /\ pbus = M.pbus
    /\ mmc = M.mmc
    /\ joypad1 = M.joypad1
    /\ joypad2 = M.joypad2
    /\ panicked = M.panic
    /\ turn = t
    /\ obs = [Obs_new EXCEPT !.sinceLine = M.ppu.cycles,
                             !.sinceFrame = M.ppu.lines * WIDTH + M.ppu.cycles,
                             !.horizon = horizon,
                             !.callAt = M.cpu.pc, !.callS = M.cpu.s]

Start(M) == StartAs(M, "cpu", 0)

Becomes(M) ==
    /\ cpu' = M.cpu
    /\ bus' = M.bus
    /\ ppu' = M.ppu
    /\ pbus' = M.pbus
    /\ mmc' = M.mmc
    /\ joypad1' = M.joypad1
    /\ joypad2' = M.joypad2
    /\ panicked' = M.panic

---------------------------------------------------------------------------
(* Nes::tick: cpu.tick(), then ppu.tick() *)

CpuTick ==
    /\ turn = "cpu"
    /\ ~panicked
    /\ \E overflow_checks \in BOOLEAN :
          \E B \in {TickBus(InBuild(Machine, overflow_checks), overflow_checks)},
             R \in {Cpu_tick(InBuild(Machine, overflow_checks), overflow_checks)} :
             /\ AfterBusKind(B) = "instr" => obs.instrs < MaxInstr
             /\ Becomes(R)
             /\ obs' = CpuObserved(obs, Machine, B, R, AfterBusKind(B))
    /\ turn' = "ppu"

PpuTick ==
    /\ turn = "ppu"
    /\ ~panicked
    /\ \E zero_hit \in ZeroHits(Machine) :
          /\ Becomes(Ppu_tick(Machine, zero_hit))
          /\ obs' = PpuObserved(obs, Machine, Ppu_tick(Machine, zero_hit))
    /\ turn' = "cpu"

Next == CpuTick \/ PpuTick

---------------------------------------------------------------------------
(* The OAM DMA scenario: work RAM pages 0 and 2 hold a pattern, A holds    *)
(* the page to transfer, OAMADDR an address, and the cartridge a program   *)
(* of NOP and STA $4014.                                                   *)

INS_NOP == <<OPC_NOP>>
INS_STA_4014 == <<OPC_STA_ABS, 20, 64>>

DmaPrograms == [1..MaxInstr -> {INS_NOP, INS_STA_4014}]

DmaPages == {2, 10, 255}

DmaOamAddrs == {0, 16}

Pattern(i) == (3 * i + 1) % 256

PatternRam == [k \in (0..255) \cup (512..767) |-> Pattern(k % 256)]

InitDma ==
    \E program \in DmaPrograms, h \in DmaPages, oa \in DmaOamAddrs :
        Start([Nes_new(program) EXCEPT !.cpu.a = h, !.ppu.oam_addr = oa,
                                       !.bus.wram = PatternRam])

Init == InitDma

Spec == Init /\ [][Next]_vars

---------------------------------------------------------------------------
(* Nes::tick and the OAM DMA *)

(* C1: over any run of machine ticks the PPU has been ticked three times   *)
(* for each CPU tick: after every whole Nes::tick the number of Ppu::tick  *)
(* calls is three times the number of Cpu::tick calls.                     *)
C1_ThreeDotsPerCycle == turn = "cpu" => obs.ppuTicks = 3 * obs.cpuTicks

(* The last requested transfer is over: the request has left the CpuBus    *)
(* queue and its payload the PpuBus queue.                                 *)
TransferDone == obs.dma # <<>> /\ bus.event = <<>> /\ pbus.event = <<>>

(* OAM holds the 256 bytes of the requested page, from the requested OAM   *)
(* address on, wrapping modulo 256.                                        *)
DmaInOam ==
    \A i \in 0..255 :
        Load(pbus.oam, (obs.dma.a + i) % 256, OAM_FILL)
            = CpuBus_read(Machine, obs.dma.h * 256 + i).v

(* C2: when a CPU tick fetches an opcode after an instruction wrote $4014, *)
(* the request and the payload have both been consumed and the 256 bytes   *)
(* of the transfer are in OAM.                                             *)
C2_DmaBeforeNextFetch ==
    [][(turn = "cpu" /\ turn' = "ppu" /\ obs'.kind = "instr" /\ obs.dma # <<>>)
          => (bus.event = <<>> /\ pbus.event = <<>> /\ DmaInOam)]_vars

(* C3: for every page H and every OAM address A, once the transfer is over *)
(* OAM[(A + i) mod 256] is the CPU-bus byte at $HH00 + i for every i in    *)
(* 0..255.                                                                 *)
C3_DmaCopiesPage == TransferDone => DmaInOam

InFlight == Len(bus.event) + Len(pbus.event)

(* C38: the stall counter is at most 514 and at most one OAM DMA is in     *)
(* flight, a request waits only at a stall counter of zero, an instruction *)
(* sends at most one request and executes only at a stall counter of zero. *)
C38_OneDmaInFlight ==
    /\ [](/\ bus.stalls <= DMA_STALL + 1
          /\ InFlight <= 1
          /\ bus.event # <<>> => bus.stalls = 0)
    /\ [][(turn = "cpu" /\ turn' = "ppu") =>
             /\ Len(bus'.event) <= 1
             /\ obs'.kind = "instr" => (bus.stalls = 0 /\ bus.event = <<>>)
             /\ bus'.stalls > bus.stalls => bus.stalls = 0]_vars

(* A second request waits after the first stalled the CPU for 514 ticks. *)
C38_Witness ==
    /\ bus.event # <<>>
    /\ bus.stalls = 0
    /\ obs.added = DMA_STALL + 1
    /\ obs.gap = DMA_STALL + 2

---------------------------------------------------------------------------
(* The NMI scenario: the PPU is two dots before the end of the last        *)
(* visible line, CTRL holds what STA $2000 left there, S what TXS left     *)
(* there, and the cartridge holds a program of NOP and LDA #i, so that the *)
(* NMI is taken with different P and PC.                                   *)

INS_LDA_80 == <<OPC_LDA_IMM, 128>>
INS_LDA_00 == <<OPC_LDA_IMM, 0>>

NmiPrograms == [1..MaxInstr -> {INS_NOP, INS_LDA_80, INS_LDA_00}]

NmiStacks == {253, 1, 0}

NmiCtrls == {0, 128}

NMI_START_LINE == VISIBLE_HEIGHT - 1
NMI_START_DOT == WIDTH - 2

InitNmi ==
    \E program \in NmiPrograms, s \in NmiStacks, c \in NmiCtrls :
        Start([AtDot(Nes_new(program), NMI_START_LINE, NMI_START_DOT)
                  EXCEPT !.cpu.s = s, !.ppu.ctrl = c])

SpecNmi == InitNmi /\ [][Next]_vars

(* The byte the CPU bus holds at a stack slot: page 1, S taken modulo 256. *)
StackByte(b, s) == Load(b.wram, STACK_BASE + (s % 256), WRAM_FILL)

(* C6: a CPU tick that polls the interrupts while the PPU requests an NMI, *)
(* with program counter R = cpu.pc, status P = cpu.p and stack pointer     *)
(* S = cpu.s, leaves R's high byte at $0100+S, R's low byte at the slot    *)
(* below, P with bits 5..4 = 10 at the slot below that, S three lower, the *)
(* I flag set, the program counter at the word stored at $FFFA/$FFFB and   *)
(* the PPU's request clear; and no more NMIs are taken than were requested.*)
C6_NmiEntry ==
    [][(turn = "cpu" /\ turn' = "ppu" /\ ppu.nmi /\ obs'.kind \in {"instr", "halt"}) =>
          /\ StackByte(bus', cpu.s) = Hi(cpu.pc)
          /\ StackByte(bus', cpu.s + 255) = Lo(cpu.pc)
          /\ StackByte(bus', cpu.s + 254) = set_b(cpu.p, 2)
          /\ obs'.entry.s = (cpu.s + 253) % 256
          /\ obs'.entry.p = set_i(cpu.p, TRUE)
          /\ obs'.entry.pc = CpuBus_read_word(Machine, 65530).v
          /\ ~ppu'.nmi
          /\ obs'.nmis = obs.nmis + 1
          /\ obs'.nmis <= obs'.asserts]_vars

---------------------------------------------------------------------------
(* The PPU followed dot by dot, its register port driven from outside:     *)
(* Ppu::tick alone, and between two ticks any access of the port that an   *)
(* instruction can make through CpuBus::read and CpuBus::write.            *)

MaxDots == 90000
MaxOps == 3
PortDots == 4

DotTick ==
    /\ turn = "port"
    /\ ~panicked
    /\ obs.ppuTicks < obs.horizon
    /\ \E zero_hit \in ZeroHits(Machine) :
          /\ Becomes(Ppu_tick(Machine, zero_hit))
          /\ obs' = PpuObserved(obs, Machine, Ppu_tick(Machine, zero_hit))
    /\ UNCHANGED turn

(* LDA $2002 *)
ReadStatus ==
    /\ turn = "port"
    /\ ~panicked
    /\ obs.ops < MaxOps
    /\ \E r \in {CpuBus_read(Machine, 8194)} :
          /\ Becomes(r.m)
          /\ obs' = [obs EXCEPT !.ops = @ + 1,
                                !.reads = @ + 1,
                                !.lastRead = r.v,
                                !.latchAtRead = Len(ppu.buffer),
                                !.setReads = IF irq_vblank(r.v) THEN @ + 1 ELSE @,
                                !.vbReads = IF ppu.mode = "VBlank" THEN @ + 1 ELSE @]
    /\ UNCHANGED turn

(* STA $2002 with A = $60 *)
WriteStatus ==
    /\ turn = "port"
    /\ ~panicked
    /\ obs.ops < MaxOps
    /\ Becomes(CpuBus_write(Machine, 8194, 96))
    /\ obs' = [obs EXCEPT !.ops = @ + 1]
    /\ UNCHANGED turn

(* STA $2005 with A = $01 *)
WriteScroll ==
    /\ turn = "port"
    /\ ~panicked
    /\ obs.ops < MaxOps
    /\ Becomes(CpuBus_write(Machine, 8197, 1))
    /\ obs' = [obs EXCEPT !.ops = @ + 1]
    /\ UNCHANGED turn

(* STA $2000 with A = data *)
CtrlBytes == {0, 128}

WriteCtrl ==
    /\ turn = "port"
    /\ ~panicked
    /\ obs.ops < MaxOps
    /\ \E data \in CtrlBytes :
          /\ Becomes(CpuBus_write(Machine, 8192, data))
          /\ obs' = [obs EXCEPT !.ops = @ + 1, !.ctrlWrites = @ + 1, !.lastCtrl = data]
    /\ UNCHANGED turn

---------------------------------------------------------------------------
(* A frame and more of the PPU with no register access, from the first dot *)
(* after construction and from two dots before the end of the last visible *)
(* line, with CTRL bit 7 clear or set and STATUS bits 6 and 5 clear or set *)
(* (as STA $2000 and STA $2002 leave them).                                *)

FrameStarts == {<<0, 0>>, <<VISIBLE_HEIGHT - 1, WIDTH - 2>>}

FrameCtrls == {0, 128}

FrameStatuses == {0, 96}

InitFrame ==
    \E at \in FrameStarts, c \in FrameCtrls, st \in FrameStatuses :
        StartAs([AtDot(Nes_new(<<>>), at[1], at[2]) EXCEPT !.ppu.ctrl = c, !.ppu.status = st],
                "port", MaxDots)

NextFrame == DotTick

SpecFrame == InitFrame /\ [][NextFrame]_vars

(* C5: in every frame STATUS bit 7 goes from clear to set on the tick     *)
(* that reaches dot 1 of line 241 and on no other; that tick leaves the    *)
(* NMI request set if and only if CTRL bit 7 is set.                       *)
C5_VBlankAtLine241Dot1 ==
    [][obs'.ppuTicks = obs.ppuTicks + 1 =>
          /\ (~irq_vblank(ppu.status) /\ irq_vblank(ppu'.status)) =>
                /\ ppu'.lines = 241
                /\ ppu'.cycles = 1
                /\ ppu'.nmi <=> ie_nmi(ppu.ctrl)
          /\ (ppu'.lines = 241 /\ ppu'.cycles = 1) => irq_vblank(ppu'.status)]_vars

(* The mode the dot of a visible line stands for. *)
ModeOfDot(dot) ==
    CASE dot = 0 -> "Idle"
      [] dot \in 1..256 -> "Drawing"
      [] dot \in 257..320 -> "OamScan"
      [] OTHER -> "PostIdle"

(* C39: after every PPU tick the mode is VBlank exactly on the lines from  *)
(* 240 on; on a visible line it is the mode of the dot, y is the line and  *)
(* at a dot drawn x is the dot less one, so a pixel is put at x in 0..255  *)
(* and y in 0..239 only, and the frame buffer holds no other.              *)
C39_ModeByPosition ==
    obs.ppuTicks > 0 =>
        /\ ppu.mode = "VBlank" <=> ppu.lines >= VISIBLE_HEIGHT
        /\ ppu.lines < VISIBLE_HEIGHT =>
              /\ ppu.mode = ModeOfDot(ppu.cycles)
              /\ ppu.y = ppu.lines
        /\ ppu.mode = "Drawing" =>
              /\ ppu.x = ppu.cycles - 1
              /\ ppu.x \in 0..(VISIBLE_WIDTH - 1)
              /\ ppu.y \in 0..(VISIBLE_HEIGHT - 1)
        /\ \A r \in ppu.pixels : 0 <= r[1] /\ r[2] < VISIBLE_WIDTH * VISIBLE_HEIGHT

(* The last dot drawn of the first line of a frame, after the lines of     *)
(* VBlank and the wrap of the frame before.                                *)
C39_Witness ==
    /\ obs.frameLen > 0
    /\ ppu.mode = "Drawing"
    /\ ppu.lines = 0
    /\ ppu.x = VISIBLE_WIDTH - 1

(* The last line of a frame, the pre-render line: line 261 of a frame of   *)
(* 262 lines, by the PPU's own line count the line before its wrap.        *)
PRE_RENDER_LINE == HEIGHT - 1

(* C9: when the PPU is at dot 1 of the pre-render line, STATUS bits 7, 6   *)
(* and 5 and the NMI request are clear, whatever they were before and      *)
(* without a read of $2002.                                                *)
C9_PreRenderClears ==
    (ppu.lines \in {PRE_RENDER_LINE, 261} /\ ppu.cycles = 1)
        => (ppu.status \div 32 = 0 /\ ~ppu.nmi)

(* C10: a scanline is 341 dots and a frame 262 scanlines: the dot counter  *)
(* stays in 0..340 and every completed line took 341 ticks, the line       *)
(* counter stays in 0..261 and every completed frame had 262 lines and     *)
(* took 341 * 262 ticks.                                                   *)
C10_FrameGeometry ==
    /\ ppu.cycles \in 0..340
    /\ ppu.lines \in 0..261
    /\ obs.lineLen \in {0, 341}
    /\ obs.frameLines \in {0, 262}
    /\ obs.frameLen \in {0, 341 * 262}

---------------------------------------------------------------------------
(* Reads of $2002 at any dots of a frame and more, with no write to $2002: *)
(* from two dots before the first VBlank entry to past the second.         *)

InitReads ==
    StartAs(AtDot(Nes_new(<<>>), VISIBLE_HEIGHT - 1, WIDTH - 2), "port", MaxDots)

NextReads == DotTick \/ ReadStatus

SpecReads == InitReads /\ [][NextReads]_vars

(* C7: with no write to $2002, of the reads of $2002 made since the last   *)
(* VBlank entry at most one returned bit 7 set, and exactly one did if     *)
(* $2002 was read during that VBlank: every read after that one returned   *)
(* bit 7 clear.                                                            *)
C7_OneSetReadPerFrame ==
    /\ obs.setReads <= 1
    /\ obs.vbReads >= 1 => obs.setReads = 1

(* The second VBlank of the run (a whole frame after the first), read      *)
(* twice: the first read returned bit 7 set, the second clear.             *)
C7_Witness ==
    /\ obs.frameLen > 0
    /\ ppu.mode = "VBlank"
    /\ obs.vbReads = 2
    /\ obs.setReads = 1
    /\ ~irq_vblank(obs.lastRead)

---------------------------------------------------------------------------
(* The register port around a VBlank entry: reads of $2002, writes of      *)
(* $2002 and of $2005 (which fills the write latch), and a few dots.       *)

InitPort ==
    StartAs(AtDot(Nes_new(<<>>), VISIBLE_HEIGHT - 1, WIDTH - 2), "port", PortDots)

NextPort == DotTick \/ ReadStatus \/ WriteStatus \/ WriteScroll

SpecPort == InitPort /\ [][NextPort]_vars

(* C8: a read of $2002 returns the STATUS byte as it was before the read   *)
(* and, in the same step, leaves STATUS with bits 7, 6 and 5 clear (the    *)
(* low five bits as they were) and the write latch reset.                  *)
C8_ReadStatusClears ==
    [][obs'.reads = obs.reads + 1 =>
          /\ obs'.lastRead = ppu.status
          /\ ppu'.status = ppu.status % 32
          /\ ppu'.buffer = <<>>]_vars

(* A read that returned bits 7, 6 and 5 set while the latch held a byte. *)
C8_Witness ==
    /\ obs.reads = 1
    /\ obs.lastRead = 224
    /\ obs.latchAtRead = 1
    /\ ppu.status = 0
    /\ ppu.buffer = <<>>

---------------------------------------------------------------------------
(* Writes of $2000 around a VBlank entry, with reads of $2002 before and   *)
(* after them: CTRL bit 7 is enabled before VBlank, during it with STATUS  *)
(* bit 7 still set, and during it after a read has cleared the bit.        *)

InitCtrl ==
    StartAs(AtDot(Nes_new(<<>>), VISIBLE_HEIGHT - 1, WIDTH - 2), "port", PortDots)

NextCtrl == DotTick \/ ReadStatus \/ WriteCtrl

SpecCtrl == InitCtrl /\ [][NextCtrl]_vars

(* C11: a write of $2000 leaves the written byte in CTRL, and with no NMI  *)
(* request pending it raises one if and only if CTRL bit 7 goes from 0 to  *)
(* 1 while the PPU is in VBlank and STATUS bit 7 is set: enabling the NMI  *)
(* in VBlank after a read of $2002 cleared bit 7 raises none.              *)
C11_WriteCtrlNmi ==
    [][obs'.ctrlWrites = obs.ctrlWrites + 1 =>
          /\ ppu'.ctrl = obs'.lastCtrl
          /\ ~ppu.nmi =>
                (ppu'.nmi <=> /\ ~ie_nmi(ppu.ctrl)
                              /\ ie_nmi(obs'.lastCtrl)
                              /\ ppu.mode = "VBlank"
                              /\ irq_vblank(ppu.status))]_vars

---------------------------------------------------------------------------
(* The Mmc1 load port: writes to $8000-$FFFF of an Mmc1 cartridge, at the  *)
(* base of each of the four register ranges and at $FFFF, with data bit 7  *)
(* clear (bit 0 clear or set) or set.  The reset vector is read through    *)
(* Mmc1::read_cpu, which with all registers zero shows the first 32 KiB of *)
(* the image as Mmc0 does.                                                 *)

MaxLoads == 10

LoadAddrs == {32768, 40960, 49152, 57344, 65535}

LoadBytes == {0, 1, 128}

WriteLoad ==
    /\ turn = "port"
    /\ ~panicked
    /\ obs.loads < MaxLoads
    /\ \E addr \in LoadAddrs, data \in LoadBytes :
          \E S \in {ShiftIn(Machine, data)}, fifth \in {Bit(data, 7) = 0 /\ Len(obs.bits) = 4} :
             /\ Becomes(CpuBus_write(Machine, addr, data))
             /\ obs' = [obs EXCEPT
                          !.loads = @ + 1,
                          !.lastAddr = addr,
                          !.lastData = data,
                          !.bits = IF Bit(data, 7) = 1 \/ fifth THEN <<>>
                                   ELSE Append(@, Bit(data, 0)),
                          !.loadBits = IF fifth THEN Append(obs.bits, Bit(data, 0)) ELSE <<>>,
                          !.commit = IF Bit(data, 7) = 0 /\ S.mmc.counter = 5
                                     THEN CopyArm(LoadSelect(addr)) ELSE "none",
                          !.value = IF Bit(data, 7) = 0 /\ S.mmc.counter = 5
                                    THEN S.mmc.latch ELSE 0]
    /\ UNCHANGED turn

InitMmc1 == StartAs([Nes_new(<<>>) EXCEPT !.mmc = Mmc1_new(Cartridge(<<>>))], "port", 0)

NextMmc1 == WriteLoad

SpecMmc1 == InitMmc1 /\ [][NextMmc1]_vars

(* The four configuration registers. *)
Registers(m) == <<m.control, m.chr_bank_0, m.chr_bank_1, m.prg_bank>>

(* The register that bits 13-14 of an address in $8000-$FFFF select, as an *)
(* index into Registers.                                                   *)
SelectedRegister(addr) == ((addr \div 8192) % 4) + 1

(* The 5-bit value of five data bits in write order. *)
LoadValue(b) == b[1] * 16 + b[2] * 8 + b[3] * 4 + b[4] * 2 + b[5]

(* C12: the fifth accepted write of a load leaves the 5-bit value in the   *)
(* register selected by bits 13-14 of its address ($8000 Control, $A000    *)
(* CHR Bank 0, $C000 CHR Bank 1, $E000 PRG Bank) and the other three       *)
(* registers as they were.                                                 *)
C12_CommitSelectsRegister ==
    [][(obs'.loads = obs.loads + 1 /\ obs'.loadBits # <<>>) =>
          \A i \in 1..4 :
             Registers(mmc')[i] = IF i = SelectedRegister(obs'.lastAddr)
                                  THEN LoadValue(obs'.loadBits)
                                  ELSE Registers(mmc)[i]]_vars

(* C13: a register is committed on every fifth write with data bit 7 clear *)
(* since the last commit or reset, and on no other write; a write with     *)
(* data bit 7 set clears the shifter and the counter, commits nothing and  *)
(* leaves the four registers as they were, and the count starts again.     *)
C13_CommitEveryFifth ==
    [][obs'.loads = obs.loads + 1 =>
          /\ obs'.loadBits # <<>> => obs'.commit # "none"
          /\ obs'.loadBits = <<>> =>
                (obs'.commit = "none" /\ Registers(mmc') = Registers(mmc))
          /\ Bit(obs'.lastData, 7) = 1 =>
                (mmc'.latch = 0 /\ mmc'.counter = 0 /\ obs'.bits = <<>>)]_vars

(* C14: the fifth accepted write commits b1*16 + b2*8 + b3*4 + b4*2 + b5,  *)
(* b1..b5 being the data bits 0 of the five writes in write order: that is *)
(* the value Mmc1::copy_register is called with, and the value Control     *)
(* holds after a load written to $8000.                                    *)
C14_LoadValue ==
    [][(obs'.loads = obs.loads + 1 /\ obs'.loadBits # <<>>) =>
          /\ obs'.value = LoadValue(obs'.loadBits)
          /\ obs'.lastAddr = 32768 =>
                (obs'.commit = "control" /\ mmc'.control = LoadValue(obs'.loadBits))]_vars

(* The writes $01, $00, $01, $00, $00 to $8000 have left $14 in Control. *)
C14_Witness ==
    /\ obs.loadBits = <<1, 0, 1, 0, 0>>
    /\ obs.lastAddr = 32768
    /\ obs.commit = "control"
    /\ mmc.control = 20

---------------------------------------------------------------------------
(* The joypad of player 1: reads and writes of $4016 by the program, and   *)
(* key events from the host (Nes::player1_keydown, Nes::player1_keyup)     *)
(* between them.                                                           *)

MaxPadReads == 10
MaxPadWrites == 2
MaxKeyEvents == 2

PadBytes == {0, 128}

PadKeys == {"A", "B", "Right"}

(* LDA $4016 *)
PadRead ==
    /\ turn = "port"
    /\ ~panicked
    /\ obs.padReads < MaxPadReads
    /\ \E r \in {CpuBus_read(Machine, 16406)} :
          /\ Becomes(r.m)
          /\ obs' = [obs EXCEPT !.padReads = @ + 1,
                                !.prevPad = obs.lastPad,
                                !.lastPad = r.v,
                                !.sinceFall = IF obs.fallen THEN @ + 1 ELSE @,
                                !.strobeReads = @ + 1]
    /\ UNCHANGED turn

(* STA $4016 with A = data *)
PadWrite ==
    /\ turn = "port"
    /\ ~panicked
    /\ obs.padWrites < MaxPadWrites
    /\ \E data \in PadBytes :
          \E R \in {CpuBus_write(Machine, 16406, data)} :
             /\ Becomes(R)
             /\ obs' = [obs EXCEPT
                          !.padWrites = @ + 1,
                          !.fallen = IF R.joypad1.strobe THEN FALSE
                                     ELSE IF joypad1.strobe THEN TRUE ELSE @,
                          !.sinceFall = IF R.joypad1.strobe \/ joypad1.strobe THEN 0 ELSE @,
                          !.strobeReads = 0]
    /\ UNCHANGED turn

(* Nes::player1_keydown *)
KeyDown ==
    /\ turn = "port"
    /\ ~panicked
    /\ obs.keyEvents < MaxKeyEvents
    /\ \E key \in PadKeys : Becomes([Machine EXCEPT !.joypad1 = keydown(@, key)])
    /\ obs' = [obs EXCEPT !.keyEvents = @ + 1]
    /\ UNCHANGED turn

(* Nes::player1_keyup *)
KeyUp ==
    /\ turn = "port"
    /\ ~panicked
    /\ obs.keyEvents < MaxKeyEvents
    /\ \E key \in PadKeys : Becomes([Machine EXCEPT !.joypad1 = keyup(@, key)])
    /\ obs' = [obs EXCEPT !.keyEvents = @ + 1]
    /\ UNCHANGED turn

InitPad == StartAs(Nes_new(<<>>), "port", 0)

NextPad == PadRead \/ PadWrite \/ KeyDown \/ KeyUp

SpecPad == InitPad /\ [][NextPad]_vars

(* The byte a read returns for a key: 1 pressed, 0 released. *)
KeyByte(J, key) == IF Pressed(J, key) THEN 1 ELSE 0

(* C15: after the strobe has fallen to 0, the n-th read of the port        *)
(* returns the state, at the time of the read, of the n-th key of A, B,    *)
(* Select, Start, Up, Down, Left, Right for n = 1..8, and every read after *)
(* the eighth returns 1, until the strobe is set again.                    *)
C15_EightKeysThenOnes ==
    [][(obs'.padReads = obs.padReads + 1 /\ obs.fallen) =>
          obs'.lastPad = IF obs.sinceFall < 8
                         THEN KeyByte(joypad1, JoypadKeys[obs.sinceFall + 1])
                         ELSE 1]_vars

(* C16: while the strobe is set the read pointer is at A, whatever reads   *)
(* and key events have happened, and a read returns the state A has at the *)
(* time of the read.                                                       *)
C16_StrobeHoldsA ==
    [][joypad1'.strobe =>
          /\ joypad1'.cur_key = "A"
          /\ (obs'.padReads = obs.padReads + 1 /\ joypad1.strobe) =>
                obs'.lastPad = KeyByte(joypad1, "A")]_vars

(* Two reads with the strobe set, A pressed at the first and released at   *)
(* the second.                                                             *)
C16_Witness ==
    /\ joypad1.strobe
    /\ joypad1.cur_key = "A"
    /\ obs.strobeReads >= 2
    /\ obs.prevPad = 1
    /\ obs.lastPad = 0

---------------------------------------------------------------------------
(* The stack instructions at every stack pointer: S holds any byte (as TXS *)
(* leaves it), A a byte (as LDA leaves it), the stack page the bytes $80   *)
(* to $8F by address and its neighbours $00FF and $0200 bytes found        *)
(* nowhere in it, and the cartridge a program of two of PHA, PLA, PHP,     *)
(* PLP, JSR $9000, RTS, RTI and BRK.  Every word popped from these bytes   *)
(* points into the NOPs of the cartridge.                                  *)

INS_PHA == <<OPC_PHA>>
INS_PLA == <<OPC_PLA>>
INS_PHP == <<OPC_PHP>>
INS_PLP == <<OPC_PLP>>
INS_JSR_9000 == <<OPC_JSR, 0, 144>>
INS_RTS == <<OPC_RTS>>
INS_RTI == <<OPC_RTI>>
INS_BRK == <<OPC_BRK>>

StackInstrs ==
    {INS_PHA, INS_PLA, INS_PHP, INS_PLP, INS_JSR_9000, INS_RTS, INS_RTI, INS_BRK}

StackPrograms == {<<i, j>> : i \in StackInstrs, j \in StackInstrs}

StackRam ==
    [k \in 255..512 |-> CASE k = 255 -> 145 [] k = 512 -> 144 [] OTHER -> 128 + (k % 16)]

InitStack ==
    \E program \in StackPrograms, s \in Byte :
        Start([Nes_new(program) EXCEPT !.cpu.s = s, !.cpu.a = 85, !.bus.wram = StackRam])

SpecStack == InitStack /\ [][Next]_vars

(* The word at two stack slots: low byte at slot s, high byte at the next. *)
StackWord(b, s) == Word(StackByte(b, s), StackByte(b, s + 1))

(* C17: at every stack pointer S an instruction that pushes or pops writes *)
(* and reads page $0100-$01FF only, S wrapping modulo 256: it leaves work  *)
(* RAM outside the page as it was; a push of one byte leaves the byte at   *)
(* $0100+S and S one lower, a push of a word its high byte at $0100+S, its *)
(* low byte at the slot below and S two lower; a pop takes its bytes from  *)
(* the slots above S in the page.                                          *)
C17_StackInPage ==
    [][(turn = "cpu" /\ turn' = "ppu" /\ obs'.kind = "instr" /\ ~panicked') =>
          LET op == CpuBus_read(Machine, cpu.pc).v
              s == cpu.s
          IN /\ \A k \in (0..255) \cup (512..2047) :
                    Load(bus'.wram, k, WRAM_FILL) = Load(bus.wram, k, WRAM_FILL)
             /\ op = OPC_PHA =>
                    (StackByte(bus', s) = cpu.a /\ cpu'.s = (s + 255) % 256)
             /\ op = OPC_PHP =>
                    (StackByte(bus', s) = set_b(cpu.p, 3) /\ cpu'.s = (s + 255) % 256)
             /\ op = OPC_PLA =>
                    (cpu'.a = StackByte(bus, s + 1) /\ cpu'.s = (s + 1) % 256)
             /\ op = OPC_PLP =>
                    (cpu'.p = set_b(StackByte(bus, s + 1), p_b(cpu.p)) /\ cpu'.s = (s + 1) % 256)
             /\ op = OPC_JSR =>
                    /\ StackByte(bus', s) = Hi(cpu.pc + 2)
                    /\ StackByte(bus', s + 255) = Lo(cpu.pc + 2)
                    /\ cpu'.s = (s + 254) % 256
             /\ op = OPC_BRK =>
                    /\ StackByte(bus', s) = Hi(cpu.pc + 2)
                    /\ StackByte(bus', s + 255) = Lo(cpu.pc + 2)
                    /\ StackByte(bus', s + 254) = set_b(cpu.p, 3)
                    /\ cpu'.s = (s + 253) % 256
             /\ op = OPC_RTS =>
                    (cpu'.pc = (StackWord(bus, s + 1) + 1) % 65536 /\ cpu'.s = (s + 2) % 256)
             /\ op = OPC_RTI =>
                    /\ cpu'.p = set_b(StackByte(bus, s + 1), p_b(cpu.p))
                    /\ cpu'.pc = StackWord(bus, s + 2)
                    /\ cpu'.s = (s + 3) % 256]_vars

---------------------------------------------------------------------------
(* Nes::reset at any tick of a run: the five data memories hold bytes      *)
(* written before, A and Y hold bytes (as LDA and LDY leave them), and the *)
(* cartridge holds a program of LDX #$80, TXS and PHA that ends in NOP or  *)
(* in STA $4014, so that the reset finds registers, flags, stack pointer,  *)
(* stack, OAM and stall counter changed.                                   *)

MaxResets == 1

INS_LDX_80 == <<OPC_LDX_IMM, 128>>
INS_TXS == <<OPC_TXS>>

ResetInstrs == {INS_LDX_80, INS_TXS, INS_PHA}

ResetPrograms ==
    {p \in [1..MaxInstr -> ResetInstrs \cup {INS_NOP, INS_STA_4014}] :
        /\ \A i \in 1..(MaxInstr - 1) : p[i] \in ResetInstrs
        /\ p[MaxInstr] \notin ResetInstrs}

WrittenCells == [k \in 0..3 |-> Pattern(k)]

(* Nes::reset *)
Reset ==
    /\ turn = "cpu"
    /\ ~panicked
    /\ obs.resets < MaxResets
    /\ Becomes(Cpu_reset(Machine))
    /\ obs' = [obs EXCEPT !.resets = @ + 1,
                          !.prior = [cpu |-> cpu, stalls |-> bus.stalls]]
    /\ UNCHANGED turn

InitReset ==
    \E program \in ResetPrograms :
        Start([Nes_new(program) EXCEPT !.cpu.a = 2, !.cpu.y = 7,
                                       !.bus.wram = PatternRam,
                                       !.pbus.vram = WrittenCells,
                                       !.pbus.palette = WrittenCells,
                                       !.pbus.oam = WrittenCells,
                                       !.mmc.prg_ram = WrittenCells])

NextReset == CpuTick \/ PpuTick \/ Reset

SpecReset == InitReset /\ [][NextReset]_vars

(* C18: whatever the CPU state before, reset leaves A = X = Y = 0,         *)
(* S = $FD, P = $24, PC = the little-endian word at $FFFC/$FFFD and the    *)
(* stall counter at 0.                                                     *)
C18_ResetRegisters ==
    [][obs'.resets = obs.resets + 1 =>
          /\ cpu'.a = 0
          /\ cpu'.x = 0
          /\ cpu'.y = 0
          /\ cpu'.s = 253
          /\ cpu'.p = 36
          /\ cpu'.pc = Word(CpuBus_read(Machine, 65532).v, CpuBus_read(Machine, 65533).v)
          /\ bus'.stalls = 0]_vars

(* A reset that found every register, the flags, the stack pointer, the    *)
(* program counter and the stall counter away from their reset values.     *)
C18_Witness ==
    /\ obs.resets = 1
    /\ obs.prior.cpu.a # 0
    /\ obs.prior.cpu.x # 0
    /\ obs.prior.cpu.y # 0
    /\ obs.prior.cpu.s # 253
    /\ obs.prior.cpu.p # 36
    /\ obs.prior.cpu.pc # RESET_VECTOR
    /\ obs.prior.stalls > 0
    /\ cpu = [Cpu_new EXCEPT !.pc = RESET_VECTOR]
    /\ bus.stalls = 0

(* The five data memories. *)
DataMemories(b, pb, m) == <<b.wram, pb.vram, pb.palette, pb.oam, m.prg_ram>>

(* C19: reset leaves work RAM, name-table VRAM, palette RAM, OAM and the   *)
(* mapper's PRG-RAM with the contents they had.                            *)
C19_ResetKeepsMemory ==
    [][obs'.resets = obs.resets + 1 =>
          DataMemories(bus', pbus', mmc') = DataMemories(bus, pbus, mmc)]_vars

(* A reset made after a push had written the stack and a DMA all of OAM,   *)
(* every memory holding bytes other than its fill.                         *)
C19_Witness ==
    /\ obs.resets = 1
    /\ obs.instrs = MaxInstr
    /\ obs.prior.cpu.s < 253
    /\ obs.dma # <<>>
    /\ DOMAIN pbus.oam = 0..255
    /\ \A i \in 1..5 : DataMemories(bus, pbus, mmc)[i] # EmptyMem

---------------------------------------------------------------------------
(* Work RAM through the CPU bus: writes (STA) of a byte to the first cell, *)
(* the last cell and a cell between, each at any of its four addresses.    *)

RamCells == {0, 66, 2047}

RamAddrs == {c + 2048 * k : c \in RamCells, k \in 0..3}

RamBytes == {0, 66}

(* STA addr with A = data *)
WriteRam ==
    /\ turn = "port"
    /\ ~panicked
    /\ obs.ops < MaxOps
    /\ \E addr \in RamAddrs, data \in RamBytes :
          /\ Becomes(CpuBus_write(Machine, addr, data))
          /\ obs' = [obs EXCEPT !.ops = @ + 1, !.ramWrites = @ + 1,
                                !.ramAddr = addr, !.ramData = data]
    /\ UNCHANGED turn

InitRam == StartAs(Nes_new(<<>>), "port", 0)

NextRam == WriteRam

SpecRam == InitRam /\ [][NextRam]_vars

(* C20: after any writes, a read of any address a in $0000-$1FFF returns   *)
(* the byte a read of a mod $0800 returns, and the byte last written is    *)
(* read at all four addresses of its cell.                                 *)
C20_RamMirrors ==
    /\ \A a \in 0..8191 : CpuBus_read(Machine, a).v = CpuBus_read(Machine, a % 2048).v
    /\ obs.ramWrites > 0 =>
          \A k \in 0..3 :
             CpuBus_read(Machine, (obs.ramAddr % 2048) + 2048 * k).v = obs.ramData

(* $42 written at $1000 and read at $0000, $0800 and $1800. *)
C20_Witness ==
    /\ obs.ramWrites > 0
    /\ obs.ramAddr = 4096
    /\ obs.ramData = 66
    /\ CpuBus_read(Machine, 0).v = 66
    /\ CpuBus_read(Machine, 2048).v = 66
    /\ CpuBus_read(Machine, 6144).v = 66

---------------------------------------------------------------------------
(* The PPU register port at its mirrors: reads (LDA) and writes (STA) of   *)
(* each of the eight registers at $2000-$2007, at the first mirror and at  *)
(* the last ($3FF8-$3FFF), in any order, in either build.                  *)

MaxRegOps == 2

RegMirrors == {0, 1, 1023}

RegBytes == {63, 132}

RegAddr(reg, mirror) == 8192 + 8 * mirror + reg

(* LDA addr *)
RegRead ==
    /\ turn = "port"
    /\ ~panicked
    /\ obs.regOps < MaxRegOps
    /\ \E reg \in 0..7, mirror \in RegMirrors, overflow_checks \in BOOLEAN :
          \E r \in {CpuBus_read(InBuild(Machine, overflow_checks), RegAddr(reg, mirror))} :
             /\ Becomes(r.m)
             /\ obs' = [obs EXCEPT !.regOps = @ + 1, !.lastReg = reg, !.lastMirror = mirror,
                                   !.lastRead = r.v]
    /\ UNCHANGED turn

(* STA addr with A = data *)
RegWrite ==
    /\ turn = "port"
    /\ ~panicked
    /\ obs.regOps < MaxRegOps
    /\ \E reg \in 0..7, mirror \in RegMirrors, data \in RegBytes, overflow_checks \in BOOLEAN :
          /\ Becomes(CpuBus_write(InBuild(Machine, overflow_checks), RegAddr(reg, mirror), data))
          /\ obs' = [obs EXCEPT !.regOps = @ + 1, !.lastReg = reg, !.lastMirror = mirror]
    /\ UNCHANGED turn

InitRegs == StartAs(Nes_new(<<>>), "port", 0)

NextRegs == RegRead \/ RegWrite

SpecRegs == InitRegs /\ [][NextRegs]_vars

(* The register address an address of $2000-$3FFF stands for. *)
RegBase(a) == 8192 + ((a - 8192) % 8)

(* C21: for every address a in $2000-$3FFF the bus takes a for             *)
(* $2000 + ((a - $2000) mod 8), the address it dispatches on; and in every *)
(* state, for every register, a read or a write at its first and at its    *)
(* last mirror returns the byte and leaves the machine that the same       *)
(* access at $2000-$2007 does, in either build.                            *)
C21_RegisterMirrors ==
    /\ \A a \in 8192..16383 : CpuFold(a) = RegBase(a)
    /\ \A reg \in 0..7, mirror \in RegMirrors, overflow_checks \in BOOLEAN :
          LET M == InBuild(Machine, overflow_checks)
          IN /\ CpuBus_read(M, RegAddr(reg, mirror)) = CpuBus_read(M, RegAddr(reg, 0))
             /\ \A data \in RegBytes :
                   CpuBus_write(M, RegAddr(reg, mirror), data)
                       = CpuBus_write(M, RegAddr(reg, 0), data)

(* $3F written to OAMADDR and then $84 to OAMDATA at $3FFC, the last       *)
(* mirror of $2004.                                                        *)
C21_Witness ==
    /\ obs.regOps = 2
    /\ obs.lastReg = 4
    /\ obs.lastMirror = 1023
    /\ ppu.oam_addr = 63
    /\ Load(pbus.oam, 63, OAM_FILL) = 132

---------------------------------------------------------------------------
(* Palette RAM through the PPU bus: writes (PpuBus::write, as              *)
(* Ppu::write_vram_data calls it with the latched address) of a byte at    *)
(* any address of $3F00-$3FFF.                                             *)

MaxPaletteWrites == 2

PaletteAddrs == 16128..16383

PaletteBytes == {58, 21}

WritePalette ==
    /\ turn = "port"
    /\ ~panicked
    /\ obs.palWrites < MaxPaletteWrites
    /\ \E addr \in PaletteAddrs, data \in PaletteBytes :
          /\ Becomes(PpuBus_write(Machine, addr, data))
          /\ obs' = [obs EXCEPT !.palWrites = @ + 1, !.palAddr = addr, !.palData = data]
    /\ UNCHANGED turn

InitPalette == StartAs(Nes_new(<<>>), "port", 0)

NextPalette == WritePalette

SpecPalette == InitPalette /\ [][NextPalette]_vars

(* The palette cell of an address: a mod 32, the cells $10, $14, $18, $1C  *)
(* being the cells $00, $04, $08, $0C.                                     *)
PaletteCell(a) == PpuFold_Mod32(a) - 16128

(* C22: the byte last written at an address of $3F00-$3FFF is read back at *)
(* every address of $3F00-$3FFF that has the same palette cell.            *)
C22_PaletteMirrors ==
    obs.palWrites > 0 =>
        \A b \in PaletteAddrs :
            PaletteCell(b) = PaletteCell(obs.palAddr)
                => PpuBus_read(Machine, b).v = obs.palData

---------------------------------------------------------------------------
(* The VRAM port: reads of $2002, writes of $2006 and of $2000 (CTRL bit 2 *)
(* clear or set), and reads and writes of $2007, in any order and in       *)
(* either build.  The address bytes give addresses in the name tables, at  *)
(* the carry into the high byte ($20FF) and at the top of the 16-bit range *)
(* ($FFE0, $FFFF).                                                         *)

MaxVramOps == 5

VramAddrBytes == {32, 224, 255}

VramCtrls == {0, 4}

VramDataBytes == {58}

VramObserved(o, access) == [o EXCEPT !.vramOps = @ + 1, !.access = access]

(* LDA $2002 *)
VramReset ==
    /\ turn = "port"
    /\ ~panicked
    /\ obs.vramOps < MaxVramOps
    /\ Becomes(CpuBus_read(Machine, 8194).m)
    /\ obs' = [VramObserved(obs, "none") EXCEPT !.latch = "reset"]
    /\ UNCHANGED turn

(* STA $2006 with A = data *)
VramAddr ==
    /\ turn = "port"
    /\ ~panicked
    /\ obs.vramOps < MaxVramOps
    /\ \E data \in VramAddrBytes :
          /\ Becomes(CpuBus_write(Machine, 8198, data))
          /\ obs' = [VramObserved(obs, "none") EXCEPT
                       !.latch = CASE obs.latch \in {"reset", "set"} -> "hi"
                                   [] obs.latch = "hi" -> "set"
                                   [] OTHER -> "unknown",
                       !.hiByte = IF obs.latch \in {"reset", "set"} THEN data ELSE @,
                       !.expect = IF obs.latch = "hi" THEN obs.hiByte * 256 + data ELSE @,
                       !.stored = IF obs.latch = "hi" THEN <<>> ELSE @]
    /\ UNCHANGED turn

(* STA $2000 with A = data *)
VramCtrl ==
    /\ turn = "port"
    /\ ~panicked
    /\ obs.vramOps < MaxVramOps
    /\ \E data \in VramCtrls : Becomes(CpuBus_write(Machine, 8192, data))
    /\ obs' = VramObserved(obs, "none")
    /\ UNCHANGED turn

(* What a $2007 access leaves of the observations of the address. *)
VramAccessed(o, access, data) ==
    [VramObserved(o, access) EXCEPT
        !.latch = IF o.latch = "set" THEN "set" ELSE "unknown",
        !.expect = (@ + AddrInc(Machine)) % 65536,
        !.vramData = data,
        !.stored = IF access = "write" THEN Append(@, o.expect) ELSE @]

(* STA $2007 with A = data *)
VramWrite ==
    /\ turn = "port"
    /\ ~panicked
    /\ obs.vramOps < MaxVramOps
    /\ \E data \in VramDataBytes, overflow_checks \in BOOLEAN :
          /\ Becomes(CpuBus_write(InBuild(Machine, overflow_checks), 8199, data))
          /\ obs' = VramAccessed(obs, "write", data)
    /\ UNCHANGED turn

(* LDA $2007 *)
VramRead ==
    /\ turn = "port"
    /\ ~panicked
    /\ obs.vramOps < MaxVramOps
    /\ \E overflow_checks \in BOOLEAN :
          \E r \in {CpuBus_read(InBuild(Machine, overflow_checks), 8199)} :
             /\ Becomes(r.m)
             /\ obs' = VramAccessed(obs, "read", r.v)
    /\ UNCHANGED turn

InitVram ==
    \E c \in VramCtrls : StartAs([Nes_new(<<>>) EXCEPT !.ppu.ctrl = c], "port", 0)

NextVram == VramReset \/ VramAddr \/ VramCtrl \/ VramWrite \/ VramRead

SpecVram == InitVram /\ [][NextVram]_vars

(* C23: once hi and then lo have been written to $2006 after a latch       *)
(* reset, a $2007 access is made on the PPU bus at V = hi * 256 + lo       *)
(* advanced by the increments of the accesses before it (a write leaves    *)
(* the PPU bus as a write of its byte at that address does, a read returns *)
(* the byte a read at that address does), and it leaves the latched        *)
(* address advanced by 32 if CTRL bit 2 is set at that access and by 1     *)
(* otherwise, for every V up to $FFFF.                                     *)
C23_VramAddress ==
    [][(obs'.vramOps = obs.vramOps + 1 /\ obs'.access # "none" /\ obs.latch = "set") =>
          /\ ~panicked'
          /\ obs'.access = "write" =>
                pbus' = PpuBus_write(Machine, obs.expect, obs'.vramData).pbus
          /\ obs'.access = "read" =>
                (obs'.vramData = PpuBus_read(Machine, obs.expect).v /\ pbus' = pbus)
          /\ buffer_addr([ppu |-> ppu']) = (obs.expect + AddrInc(Machine)) % 65536]_vars

---------------------------------------------------------------------------
(* The write latch of $2005 and $2006: writes of either register and reads *)
(* of $2002 in any order.                                                  *)

MaxLatchOps == 5

LatchBytes == {17, 200}

(* LDA $2002 *)
LatchRead ==
    /\ turn = "port"
    /\ ~panicked
    /\ obs.latchOps < MaxLatchOps
    /\ Becomes(CpuBus_read(Machine, 8194).m)
    /\ obs' = [obs EXCEPT !.latchOps = @ + 1, !.latchReads = @ + 1, !.sinceRead = <<>>,
                          !.oddReset = Len(obs.sinceRead) % 2 = 1]
    /\ UNCHANGED turn

(* STA $2005 with A = data *)
LatchScroll ==
    /\ turn = "port"
    /\ ~panicked
    /\ obs.latchOps < MaxLatchOps
    /\ \E data \in LatchBytes :
          /\ Becomes(CpuBus_write(Machine, 8197, data))
          /\ obs' = [obs EXCEPT !.latchOps = @ + 1, !.sinceRead = Append(@, <<5, data>>)]
    /\ UNCHANGED turn

(* STA $2006 with A = data *)
LatchAddr ==
    /\ turn = "port"
    /\ ~panicked
    /\ obs.latchOps < MaxLatchOps
    /\ \E data \in LatchBytes :
          /\ Becomes(CpuBus_write(Machine, 8198, data))
          /\ obs' = [obs EXCEPT !.latchOps = @ + 1, !.sinceRead = Append(@, <<6, data>>)]
    /\ UNCHANGED turn

InitLatch == StartAs(Nes_new(<<>>), "port", 0)

NextLatch == LatchRead \/ LatchScroll \/ LatchAddr

SpecLatch == InitLatch /\ [][NextLatch]_vars

(* C24: after a read of $2002, whatever $2005/$2006 writes came before it  *)
(* (an odd number included), the latch is empty, the next $2005 or $2006   *)
(* write is the first of a pair and the one after it the second; two       *)
(* $2005 writes a then b after the read leave scroll_x = a, scroll_y = b,  *)
(* and two $2006 writes hi then lo latch the address hi * 256 + lo.        *)
C24_LatchReset ==
    (obs.latchReads > 0 /\ Len(obs.sinceRead) <= 2) =>
        /\ ppu.buffer = [k \in 1..Len(obs.sinceRead) |-> obs.sinceRead[k][2]]
        /\ (Len(obs.sinceRead) = 2 /\ obs.sinceRead[1][1] = 5 /\ obs.sinceRead[2][1] = 5) =>
              (ppu.scroll_x = obs.sinceRead[1][2] /\ ppu.scroll_y = obs.sinceRead[2][2])
        /\ (Len(obs.sinceRead) = 2 /\ obs.sinceRead[1][1] = 6 /\ obs.sinceRead[2][1] = 6) =>
              buffer_addr([ppu |-> ppu]) = obs.sinceRead[1][2] * 256 + obs.sinceRead[2][2]

C24_Witness ==
    /\ obs.oddReset
    /\ obs.sinceRead = <<<<5, 17>>, <<5, 200>>>>
    /\ ppu.scroll_x = 17
    /\ ppu.scroll_y = 200

---------------------------------------------------------------------------
(* The OAM port: writes of $2003 (OAMADDR, at the start and next to the    *)
(* end of OAM) and of $2004 (OAMDATA) in any order.                        *)

MaxOamOps == 5

OamAddrs == {0, 254}

OamBytes == {11, 22}

(* STA $2003 with A = data *)
WriteOamAddr ==
    /\ turn = "port"
    /\ ~panicked
    /\ obs.oamOps < MaxOamOps
    /\ \E data \in OamAddrs :
          /\ Becomes(CpuBus_write(Machine, 8195, data))
          /\ obs' = [obs EXCEPT !.oamOps = @ + 1, !.oamSet = TRUE, !.oamBase = data,
                                !.oamBytes = <<>>]
    /\ UNCHANGED turn

(* STA $2004 with A = data *)
WriteOamData ==
    /\ turn = "port"
    /\ ~panicked
    /\ obs.oamOps < MaxOamOps
    /\ \E data \in OamBytes :
          /\ Becomes(CpuBus_write(Machine, 8196, data))
          /\ obs' = [obs EXCEPT !.oamOps = @ + 1, !.oamBytes = Append(@, data)]
    /\ UNCHANGED turn

InitOam == StartAs(Nes_new(<<>>), "port", 0)

NextOam == WriteOamAddr \/ WriteOamData

SpecOam == InitOam /\ [][NextOam]_vars

(* C25: the n bytes written to $2004 since the last write of $2003 are in  *)
(* the n consecutive OAM cells that start at the address written to $2003  *)
(* (modulo 256), and OAMADDR is that address plus n (modulo 256).          *)
C25_OamIncrement ==
    obs.oamSet =>
        /\ \A k \in 1..Len(obs.oamBytes) :
              Load(pbus.oam, (obs.oamBase + k - 1) % 256, OAM_FILL) = obs.oamBytes[k]
        /\ ppu.oam_addr = (obs.oamBase + Len(obs.oamBytes)) % 256

---------------------------------------------------------------------------
(* JSR and RTS: the program counter is at a JSR $9000 (as a jump to it     *)
(* leaves it) at the start of PRG-ROM, where the return address carries    *)
(* into its high byte, or at the last place with an instruction after it;  *)
(* S holds any byte (as TXS leaves it), the stack page and its neighbours  *)
(* hold StackRam, and the subroutine at $9000 returns at once, or pushes   *)
(* and pops a byte first, or calls a subroutine that does.  The run ends   *)
(* with the RTS that matches the first JSR.                                *)

JsrLocations == {32768, 33022, 65532}

INS_JSR_9010 == <<OPC_JSR, 16, 144>>

(* Code by its offset in the PRG-ROM image. *)
JsrBodies ==
    {<<<<4096, <<INS_RTS>>>>>>,
     <<<<4096, <<INS_PHA, INS_PLA, INS_RTS>>>>>>,
     <<<<4096, <<INS_PHP, INS_PLP, INS_RTS>>>>>>,
     <<<<4096, <<INS_JSR_9010, INS_RTS>>>>, <<4112, <<INS_PHA, INS_PLA, INS_RTS>>>>>>}

(* The image prg with the bytes of code from offset at on. *)
Place(prg, at, code) ==
    [k \in DOMAIN prg \cup (at..(at + Len(code) - 1)) |->
        IF k \in at..(at + Len(code) - 1) THEN code[k - at + 1] ELSE prg[k]]

RECURSIVE PlaceAll(_, _)
PlaceAll(prg, blocks) ==
    IF blocks = <<>> THEN prg
    ELSE PlaceAll(Place(prg, Head(blocks)[1], Flatten(Head(blocks)[2])), Tail(blocks))

CallMachine(p, body, s) ==
    [Nes_new(<<>>) EXCEPT
        !.mmc.prg = PlaceAll(Place(@, p - 32768, INS_JSR_9000), body),
        !.cpu.pc = p, !.cpu.s = s, !.cpu.a = 85, !.bus.wram = StackRam]

InitCall ==
    \E p \in JsrLocations, body \in JsrBodies, s \in Byte :
        Start(CallMachine(p, body, s))

CallTick ==
    /\ turn = "cpu"
    /\ ~panicked
    /\ ~obs.returned
    /\ \E overflow_checks \in BOOLEAN :
          \E B \in {TickBus(InBuild(Machine, overflow_checks), overflow_checks)},
             R \in {Cpu_tick(InBuild(Machine, overflow_checks), overflow_checks)},
             op \in {CpuBus_read(Machine, cpu.pc).v} :
             /\ Becomes(R)
             /\ obs' = [CpuObserved(obs, Machine, B, R, AfterBusKind(B)) EXCEPT
                          !.depth = CASE op = OPC_JSR -> @ + 1 [] op = OPC_RTS -> @ - 1
                                      [] OTHER -> @,
                          !.maxDepth = IF op = OPC_JSR /\ obs.depth = @ THEN @ + 1 ELSE @,
                          !.returned = op = OPC_RTS /\ obs.depth = 1]
    /\ turn' = "ppu"

NextCall == CallTick \/ PpuTick

SpecCall == InitCall /\ [][NextCall]_vars

(* C26: at every stack pointer S, the values at which the stack wraps      *)
(* included, and every place p of a JSR that has an instruction after it,  *)
(* once the RTS that matches the JSR at p has been executed, the pushes    *)
(* and pops in between balanced, the program counter is p + 3 and the      *)
(* stack pointer is S again.                                               *)
C26_JsrRts ==
    obs.returned => (~panicked /\ cpu.pc = obs.callAt + 3 /\ cpu.s = obs.callS)

C26_Witness ==
    /\ obs.returned
    /\ obs.maxDepth = 2
    /\ obs.callS = 1
    /\ obs.callAt = 33022
    /\ cpu.pc = 33025
    /\ cpu.s = 1

---------------------------------------------------------------------------
(* The opcodes the CPU leaves unimplemented: the cartridge holds a program *)
(* of NOP, STP ($02 and $12), SHY $0200,X and SHX $0200,Y.                 *)

INS_STP == <<OPC_STP>>
INS_STP_12 == <<OPC_STP_12>>
INS_SHY == <<OPC_SHY, 0, 2>>
INS_SHX == <<OPC_SHX, 0, 2>>

UnimplementedPrograms == [1..MaxInstr -> {INS_NOP, INS_STP, INS_STP_12, INS_SHY, INS_SHX}]

InitUnimplemented == \E program \in UnimplementedPrograms : Start(Nes_new(program))

SpecUnimplemented == InitUnimplemented /\ [][Next]_vars

(* The opcode an instruction tick fetches. *)
Fetched == CpuBus_read(Machine, cpu.pc).v

InstrTick == turn = "cpu" /\ turn' = "ppu" /\ obs'.kind = "instr"

(* C27: a CPU tick that executes STP returns normally and leaves the CPU   *)
(* halted, and a CPU tick of a halted CPU returns normally, executes no    *)
(* instruction and leaves every CPU register as it was.                    *)
C27_StpHalts ==
    [][/\ (InstrTick /\ Fetched \in {OPC_STP, OPC_STP_12}) => (~panicked' /\ cpu'.halt)
       /\ (turn = "cpu" /\ turn' = "ppu" /\ cpu.halt) =>
             (~panicked' /\ cpu' = cpu /\ obs'.instrs = obs.instrs)]_vars

(* C28: a CPU tick that executes SHY or SHX does not abort the machine.    *)
C28_UnimplementedContinues ==
    [][(InstrTick /\ Fetched \in {OPC_SHY, OPC_SHX}) => ~panicked']_vars

---------------------------------------------------------------------------
(* Ppu::render: the raw bytes of the frame buffer, four for each of the    *)
(* VISIBLE_WIDTH * VISIBLE_HEIGHT pixels, the alpha byte the fourth.       *)

render_len(M) == VISIBLE_WIDTH * VISIBLE_HEIGHT * 4

(* C29: in every state, the one after construction included, render        *)
(* returns 256 * 240 * 4 bytes and the alpha byte of every pixel is $FF.   *)
C29_RenderAlpha ==
    /\ render_len(Machine) = 245760
    /\ \A i \in 0..(VISIBLE_WIDTH * VISIBLE_HEIGHT - 1) :
          PixelAlpha(ppu.pixels, i) = COLOR_ALPHA

---------------------------------------------------------------------------
(* An NMI requested during a DMA stall: the PPU is two dots before the end *)
(* of the last visible line, CTRL holds what STA $2000 left there, A the   *)
(* page to transfer, and the cartridge a program of NOP and STA $4014, so  *)
(* that VBlank begins while the CPU executes, or is stalled by the DMA of  *)
(* the first instruction.                                                  *)

InitNmiStall ==
    \E program \in DmaPrograms, c \in NmiCtrls :
        Start([AtDot(Nes_new(program), NMI_START_LINE, NMI_START_DOT)
                  EXCEPT !.cpu.a = 2, !.ppu.ctrl = c, !.bus.wram = PatternRam])

SpecNmiStall == InitNmiStall /\ [][Next]_vars

(* VBlank: from line VISIBLE_HEIGHT, dot 0 to the wrap of the line counter *)
(* at HEIGHT.                                                              *)
VBLANK_TICKS == (HEIGHT - VISIBLE_HEIGHT) * WIDTH

(* C30: a CPU tick that finds the stall counter nonzero leaves the NMI     *)
(* request, the count of NMIs taken and the CPU registers as they were; a  *)
(* CPU tick that finds it zero while the request is set takes the NMI and  *)
(* clears the request; the request stays set for fewer CPU ticks than      *)
(* VBlank has PPU ticks, and no PPU tick clears it.                        *)
C30_NmiAtBoundary ==
    [][/\ (turn = "cpu" /\ turn' = "ppu" /\ obs'.kind = "stall") =>
             (ppu'.nmi = ppu.nmi /\ obs'.nmis = obs.nmis /\ cpu' = cpu)
       /\ (turn = "cpu" /\ turn' = "ppu" /\ obs'.kind = "instr" /\ ppu.nmi) =>
             /\ ~ppu'.nmi
             /\ obs'.nmis = obs.nmis + 1
             /\ obs'.entry.pc = NMI_VECTOR
       /\ obs'.pending < VBLANK_TICKS
       /\ (turn = "ppu" /\ turn' = "cpu" /\ ppu.nmi) => ppu'.nmi]_vars

C30_Witness ==
    /\ obs.kind = "instr"
    /\ obs.nmis = 1
    /\ obs.waited >= DMA_STALL - 1
    /\ ppu.mode = "VBlank"
    /\ ie_nmi(ppu.ctrl)
    /\ ~ppu.nmi

---------------------------------------------------------------------------
(* Words on the stack: S holds any byte (as TXS leaves it), the stack page *)
(* and its neighbours hold StackRam, and words are pushed by push_16,      *)
(* pushed as two bytes by push_8, and popped by pop_16.                    *)

MaxWordOps == 2

StackWords == {4660, 33023}

(* A word pushed high byte first, and a word popped low byte first. *)
PushBytes(M, data) == push_8(push_8(M, Hi(data)), Lo(data))

PopBytes(M) ==
    LET high(lo) ==
            LET word(hi) == [m |-> hi.m, v |-> Word(lo.v, hi.v)]
            IN word(pop_8(lo.m))
    IN high(pop_8(M))

Twin(M, v) == [ram |-> M.bus.wram, s |-> M.cpu.s, v |-> v]

(* push_16 *)
PushWord ==
    /\ turn = "port"
    /\ ~panicked
    /\ obs.wordOps < MaxWordOps
    /\ \E data \in StackWords :
          /\ Becomes(push_16(Machine, data))
          /\ obs' = [obs EXCEPT !.wordOps = @ + 1, !.pushed = <<>>, !.byBytes = <<>>,
                                !.twin = Twin(PushBytes(Machine, data), obs.lastWord)]
    /\ UNCHANGED turn

(* push_8 of the high byte, push_8 of the low byte *)
PushTwoBytes ==
    /\ turn = "port"
    /\ ~panicked
    /\ obs.wordOps < MaxWordOps
    /\ \E data \in StackWords :
          /\ Becomes(PushBytes(Machine, data))
          /\ obs' = [obs EXCEPT !.wordOps = @ + 1, !.pushed = <<data>>, !.byBytes = <<>>,
                                !.twin = Twin(PushBytes(Machine, data), obs.lastWord)]
    /\ UNCHANGED turn

(* pop_16 *)
PopWord ==
    /\ turn = "port"
    /\ ~panicked
    /\ obs.wordOps < MaxWordOps
    /\ \E r \in {pop_16(Machine)}, b \in {PopBytes(Machine)} :
          /\ Becomes(r.m)
          /\ obs' = [obs EXCEPT !.wordOps = @ + 1, !.lastWord = r.v,
                                !.pushed = <<>>, !.byBytes = obs.pushed,
                                !.twin = Twin(b.m, b.v)]
    /\ UNCHANGED turn

InitWord ==
    \E s \in Byte :
        StartAs([Nes_new(<<>>) EXCEPT !.cpu.s = s, !.bus.wram = StackRam], "port", 0)

NextWord == PushWord \/ PushTwoBytes \/ PopWord

SpecWord == InitWord /\ [][NextWord]_vars

(* C31: at every S a push or a pop of a word leaves work RAM and S, and a  *)
(* pop returns the word, as the same operation made with push_8 (high byte *)
(* first) or pop_8 (low byte first) does; a word pushed as two bytes is    *)
(* the word the pop_16 after it returns.                                   *)
C31_WordAsBytes ==
    obs.wordOps > 0 =>
        /\ \A k \in 0..2047 : Load(bus.wram, k, WRAM_FILL) = Load(obs.twin.ram, k, WRAM_FILL)
        /\ cpu.s = obs.twin.s
        /\ obs.lastWord = obs.twin.v
        /\ obs.byBytes # <<>> => obs.lastWord = obs.byBytes[1]

---------------------------------------------------------------------------
(* ADC and SBC: A holds any byte (as LDA leaves it), the carry flag is     *)
(* clear or set (as CLC and SEC leave it), and the cartridge holds a       *)
(* program of ADC #m and SBC #m with operands at the ends of the byte      *)
(* range and at both sides of the sign.                                    *)

MaxAluInstr == 1

AluOperands == {0, 1, 127, 128, 255}

AluInstrs == {<<op, m>> : op \in {OPC_ADC_IMM, OPC_SBC_IMM}, m \in AluOperands}

AluPrograms == [1..MaxAluInstr -> AluInstrs]

InitAlu ==
    \E program \in AluPrograms, a \in Byte, c \in BOOLEAN :
        Start([Nes_new(program) EXCEPT !.cpu.a = a, !.cpu.p = set_c(@, c)])

AluTick ==
    /\ turn = "cpu"
    /\ ~panicked
    /\ obs.instrs < MaxAluInstr
    /\ \E overflow_checks \in BOOLEAN :
          \E B \in {TickBus(InBuild(Machine, overflow_checks), overflow_checks)},
             R \in {Cpu_tick(InBuild(Machine, overflow_checks), overflow_checks)} :
             /\ Becomes(R)
             /\ obs' = CpuObserved(obs, Machine, B, R, AfterBusKind(B))
    /\ turn' = "ppu"

NextAlu == AluTick \/ PpuTick

SpecAlu == InitAlu /\ [][NextAlu]_vars

(* The operand of an instruction in immediate mode. *)
Operand == CpuBus_read(Machine, wrapping_add16(cpu.pc, 1)).v

CarryIn == IF p_c(cpu.p) THEN 1 ELSE 0

(* C32: ADC #m leaves A = (A + m + C) mod 256, the carry set exactly when  *)
(* A + m + C > 255, V set exactly when A and m have the same sign and the  *)
(* result has the other, and N and Z by the result.                        *)
C32_Adc ==
    [][(InstrTick /\ Fetched = OPC_ADC_IMM) =>
          LET sum == cpu.a + Operand + CarryIn
              result == sum % 256
          IN /\ cpu'.a = result
             /\ p_c(cpu'.p) <=> sum > 255
             /\ p_v(cpu'.p) <=> ((cpu.a >= 128) = (Operand >= 128)
                                    /\ (result >= 128) # (cpu.a >= 128))
             /\ p_n(cpu'.p) <=> result >= 128
             /\ p_z(cpu'.p) <=> result = 0]_vars

(* C33: SBC #m leaves A = (A - m - (1 - C)) mod 256, the carry set exactly *)
(* when A >= m + (1 - C), V set exactly when A and m have different signs  *)
(* and the result has not the sign of A, and N and Z by the result.        *)
C33_Sbc ==
    [][(InstrTick /\ Fetched = OPC_SBC_IMM) =>
          LET borrow == 1 - CarryIn
              result == (cpu.a + 512 - Operand - borrow) % 256
          IN /\ cpu'.a = result
             /\ p_c(cpu'.p) <=> cpu.a >= Operand + borrow
             /\ p_v(cpu'.p) <=> ((cpu.a >= 128) # (Operand >= 128)
                                    /\ (result >= 128) # (cpu.a >= 128))
             /\ p_n(cpu'.p) <=> result >= 128
             /\ p_z(cpu'.p) <=> result = 0]_vars

---------------------------------------------------------------------------
(* The composition of a dot: the PPU is at the start of a visible line,    *)
(* MASK holds what STA $2001 left there (bits 3 and 4 clear or set), the   *)
(* backdrop cell of the palette a colour, and at every dot drawn the line  *)
(* buffers hold what draw_bg and draw_sprites can leave there: in bg_line  *)
(* the default with BG rendering off, an opaque or a transparent palette   *)
(* entry with it on; in oam_line the default (no sprite) or an opaque or   *)
(* transparent entry of a sprite, behind the background or not, sprite 0   *)
(* or not.                                                                 *)

MaxPixelDots == 3

PixelMasks == {0, 8, 16, 24}

PixelBackdrops == {13}

BgColors(mask) ==
    IF mask_bg(mask)
    THEN {[value |-> 5, transparent |-> FALSE], [value |-> 7, transparent |-> TRUE]}
    ELSE {Color_default}

SpriteColors ==
    {OamColor_default} \cup
    {[color |-> c, behind |-> b, zero |-> z] :
        c \in {[value |-> 9, transparent |-> FALSE], [value |-> 11, transparent |-> TRUE]},
        b \in BOOLEAN, z \in BOOLEAN}

PixelTick ==
    /\ turn = "port"
    /\ ~panicked
    /\ obs.ppuTicks < obs.horizon
    /\ \E bg_color \in BgColors(ppu.mask), sprite_color \in SpriteColors :
          \E R \in {Ppu_tick(Machine, zero_hit_condition(bg_color, sprite_color))} :
             /\ Becomes(R)
             /\ obs' = [PpuObserved(obs, Machine, R) EXCEPT
                          !.drawn = R.ppu.mode = "Drawing",
                          !.bgAt = bg_color,
                          !.spriteAt = sprite_color,
                          !.pixel = pixel_value(PpuBus_read(Machine, 16128).v, ppu.mask,
                                                bg_color, sprite_color)]
    /\ UNCHANGED turn

InitPixel ==
    \E mask \in PixelMasks, backdrop \in PixelBackdrops :
        StartAs([Nes_new(<<>>) EXCEPT !.ppu.mask = mask,
                                      !.pbus.palette = Store(@, 0, backdrop)],
                "port", MaxPixelDots)

NextPixel == PixelTick

SpecPixel == InitPixel /\ [][NextPixel]_vars

(* C34: a tick that draws a dot sets STATUS bit 6 exactly when MASK bits 3 *)
(* and 4 are both set and, at that dot, the sprite pixel is tagged sprite  *)
(* zero and opaque and the BG pixel is opaque.                             *)
C34_ZeroHit ==
    [][(obs'.ppuTicks = obs.ppuTicks + 1 /\ obs'.drawn /\ ~oam_0_hit(ppu.status)) =>
          (oam_0_hit(ppu'.status) <=>
              /\ mask_bg(ppu.mask)
              /\ mask_oam(ppu.mask)
              /\ obs'.spriteAt.zero
              /\ ~obs'.spriteAt.color.transparent
              /\ ~obs'.bgAt.transparent)]_vars

(* C35: the pixel of a drawn dot is the backdrop, or the BG colour if BG   *)
(* rendering is on and the BG pixel is opaque, or, with sprite rendering   *)
(* on, the sprite colour if the sprite pixel is opaque and either is not   *)
(* behind the background or the BG pixel is transparent.                   *)
C35_Composition ==
    [][(obs'.ppuTicks = obs.ppuTicks + 1 /\ obs'.drawn) =>
          LET bgOpaque == ~obs'.bgAt.transparent
              spOpaque == ~obs'.spriteAt.color.transparent
              under == IF mask_bg(ppu.mask) /\ bgOpaque THEN obs'.bgAt.value
                       ELSE PpuBus_read(Machine, 16128).v
          IN obs'.pixel =
               IF mask_oam(ppu.mask) /\ spOpaque /\ (~obs'.spriteAt.behind \/ ~bgOpaque)
               THEN obs'.spriteAt.color.value ELSE under]_vars

---------------------------------------------------------------------------
(* The sprite scan of a line: the PPU is at the last dots drawn of a       *)
(* visible line, CTRL bit 5 and MASK bit 4 are what STA $2000 and          *)
(* STA $2001 left there, and OAM holds one sprite written through $2004,   *)
(* its top above, at or below the line and flipped vertically or not; the  *)
(* other entries are as PpuBus::new leaves them (a sprite at the top left  *)
(* corner of the screen).                                                  *)

(* Oam::new: the entry i of OAM (y, tile, flags, x). *)
Oam_new(oam, i) ==
    [y |-> Load(oam, 4 * i, OAM_FILL), tile_num |-> Load(oam, 4 * i + 1, OAM_FILL),
     sprite_flag |-> Load(oam, 4 * i + 2, OAM_FILL), x |-> Load(oam, 4 * i + 3, OAM_FILL),
     zero |-> i = 0]

sprite_size(ctrl) == IF large_sprite(ctrl) THEN 16 ELSE 8

(* The test of Ppu::draw_sprites that selects an entry on a line. *)
on_line(ctrl, lines, oam) == lines < oam.y + sprite_size(ctrl) /\ oam.y <= lines

(* The row of Ppu::draw_sprite; it is called for selected entries only,    *)
(* for which y - oam.y is in 0..size-1 and no u8 operation overflows.      *)
sprite_row(ctrl, y, oam) ==
    IF y_flip(oam.sprite_flag) THEN sprite_size(ctrl) - (y - oam.y) ELSE y - oam.y

(* The entry Ppu::tick hands to draw_sprites at a dot: every second entry. *)
scan_index_Even(cycles) == (2 * cycles) % 64

(* The entry Ppu::tick hands to draw_sprites at a dot. *)
scan_index(cycles) == cycles % 64

(* Ppu::draw_sprites(i), by what it does with the entry: nothing with      *)
(* sprite rendering off, else it compares the entry with the line and      *)
(* draws the row of a selected one into oam_line.                          *)
draw_sprites(P, oam, i) ==
    [examined |-> mask_oam(P.mask),
     selected |-> mask_oam(P.mask) /\ on_line(P.ctrl, P.lines, Oam_new(oam, i)),
     row |-> sprite_row(P.ctrl, P.y, Oam_new(oam, i))]

MaxScanTicks == 70

LAST_SCAN_DOT == 320

ScanLines == {7, 20}

ScanTops == {5, 13, 20, 21}

ScanEntries == {0, 1, 63}

ScanFlags == {0, 128}

ScanCtrls == {0, 32}

ScanMasks == {0, 16}

ScanObserved(o, R) ==
    LET i == scan_index(R.ppu.cycles)
        d == draw_sprites(R.ppu, R.pbus.oam, i)
        line == IF R.ppu.cycles = 0
                THEN [o EXCEPT !.examined = [k \in 0..63 |-> 0], !.rows = {}]
                ELSE o
    IN IF R.ppu.mode = "OamScan" /\ ~R.panic
       THEN [line EXCEPT !.examined[i] = IF d.examined THEN @ + 1 ELSE @,
                         !.rows = IF d.selected THEN @ \cup {<<i, d.row>>} ELSE @]
       ELSE line

ScanTick ==
    /\ turn = "port"
    /\ ~panicked
    /\ obs.ppuTicks < obs.horizon
    /\ \E zero_hit \in BOOLEAN :
          \E R \in {Ppu_tick(Machine, zero_hit)} :
             /\ Becomes(R)
             /\ obs' = ScanObserved(PpuObserved(obs, Machine, R), R)
    /\ UNCHANGED turn

InitScan ==
    \E line \in ScanLines, top \in ScanTops, i \in ScanEntries, flags \in ScanFlags,
       ctrl \in ScanCtrls, mask \in ScanMasks :
        StartAs([Nes_new(<<>>) EXCEPT
                    !.ppu.ctrl = ctrl, !.ppu.mask = mask,
                    !.ppu.lines = line, !.ppu.y = line,
                    !.ppu.cycles = VISIBLE_WIDTH - 1, !.ppu.x = VISIBLE_WIDTH - 2,
                    !.ppu.mode = "Drawing",
                    !.ppu.pixels = {<<0, line * VISIBLE_WIDTH + VISIBLE_WIDTH - 2>>},
                    !.pbus.oam = Store(Store(@, 4 * i, top), 4 * i + 2, flags)],
                "port", MaxScanTicks)

NextScan == ScanTick

SpecScan == InitScan /\ [][NextScan]_vars

(* The sprites of OAM that are on the current line. *)
OnLine == {i \in 0..63 : on_line(ppu.ctrl, ppu.lines, Oam_new(pbus.oam, i))}

(* C36: the row fetched for a sprite selected on line L with top y and     *)
(* height H is L - y, or H - 1 - (L - y) with flags bit 7 set, and lies in *)
(* 0..H-1.                                                                 *)
C36_SpriteRow ==
    \A r \in obs.rows :
        LET o == Oam_new(pbus.oam, r[1])
            H == IF large_sprite(ppu.ctrl) THEN 16 ELSE 8
            d == ppu.lines - o.y
        IN /\ r[2] = IF y_flip(o.sprite_flag) THEN H - 1 - d ELSE d
           /\ r[2] \in 0..(H - 1)

---------------------------------------------------------------------------
(* The PRG windows of an Mmc1: a cartridge of 2 or 16 banks of 16 KiB      *)
(* whose first and last bytes of every bank tell the bank and the offset,  *)
(* the Control and PRG Bank registers as loads through $8000 and $E000     *)
(* leave them, and reads (LDA addr) in both windows, at the vectors and at *)
(* $FFFF.                                                                  *)

MaxPrgReads == 2

BANK_SIZE == 16384

PrgBankCounts == {2, 16}

PrgMarks == {0, 1, 2, 3, 16379, 16380, 16381, 16382, 16383}

PrgByte(bank, offset) == (3 * bank + offset) % 251

BankedRom(banks) ==
    [chr_size |-> 8192, chr |-> EmptyMem, prg_size |-> banks * BANK_SIZE,
     prg |-> [j \in {b * BANK_SIZE + o : b \in 0..(banks - 1), o \in PrgMarks} |->
                 PrgByte(j \div BANK_SIZE, j % BANK_SIZE)]]

PrgControls == {0, 8, 12, 15}

PrgBankValues == {0, 1, 3, 15, 17}

PrgReadAddrs == {32768, 49152, 49153, 65532, 65533, 65535}

ReadPrg ==
    /\ turn = "port"
    /\ ~panicked
    /\ obs.prgReads < MaxPrgReads
    /\ \E addr \in PrgReadAddrs, overflow_checks \in BOOLEAN :
          \E r \in {CpuBus_read(InBuild(Machine, overflow_checks), addr)} :
             /\ Becomes(r.m)
             /\ obs' = [obs EXCEPT !.prgReads = @ + 1, !.prgAddr = addr, !.prgData = r.v]
    /\ UNCHANGED turn

InitPrg ==
    \E banks \in PrgBankCounts, control \in PrgControls, prg_bank \in PrgBankValues :
        \E R \in {Cpu_reset(InBuild([cpu |-> Cpu_new, bus |-> CpuBus_new, ppu |-> Ppu_new,
                                     pbus |-> PpuBus_new, mmc |-> Mmc1_new(BankedRom(banks)),
                                     joypad1 |-> Joypad_new, joypad2 |-> Joypad_new,
                                     panic |-> FALSE], FALSE))} :
            StartAs([R EXCEPT !.mmc.control = control, !.mmc.prg_bank = prg_bank],
                    "port", 0)

NextPrg == ReadPrg

SpecPrg == InitPrg /\ [][NextPrg]_vars

(* Byte k of the last 16 KiB of the PRG image. *)
LastBankByte(k) == Load(mmc.prg, mmc.prg_size - BANK_SIZE + k, PRG_FILL)

(* C37: with PRG-bank-mode 3 a read at $C000 + k returns byte k of the     *)
(* last 16 KiB of PRG-ROM, whatever the PRG Bank register holds, and does  *)
(* not stop the machine.                                                   *)
C37_LastBankFixed ==
    [][(obs'.prgReads = obs.prgReads + 1 /\ control_prg_rom_bank(mmc.control) = 3
           /\ obs'.prgAddr >= 49152) =>
          /\ ~panicked'
          /\ obs'.prgData = LastBankByte(obs'.prgAddr - 49152)]_vars

=============================================================================
